---- MODULE Spec2Model ----
(***************************************************************************)
(* The power/cray plugin of slurmctld (src/plugins/power/cray/power_cray.c) *)
(* as a state machine: the node table's power records, the configuration,  *)
(* the capmc child process's responses, and the balancing pass of          *)
(* _power_agent (energy ingest, allocation, cap application).              *)
(***************************************************************************)
EXTENDS Integers, Sequences, FiniteSets, TLC

(***************************************************************************)
(* Bounds of the model.                                                    *)
(***************************************************************************)
\* nodes in the node table of an energy-ingest run
EnergyNodes == 2

\* a node without a power record: node_ptr->power == NULL
NULL_POWER == [null |-> TRUE]

(***************************************************************************)
(* uint32_t.  TLC's integers are 32-bit signed, so a uint32_t value v is   *)
(* held as the integer congruent to v modulo 2^32 in -2^31 .. 2^31-1: a    *)
(* value below 2^31 is itself, a value v >= 2^31 is v - 2^32 (negative).   *)
(* Every operator below is the C operator on uint32_t operands.            *)
(***************************************************************************)
INT32_MAX == 2147483647

U32Add(a, b) ==
  IF (a >= 0) /= (b >= 0) THEN a + b
  ELSE IF a >= 0
       THEN IF a <= INT32_MAX - b THEN a + b
            ELSE ((a - INT32_MAX - 1) + (b - INT32_MAX)) - 1
       ELSE IF a >= (-INT32_MAX - 1) - b THEN a + b
            ELSE ((a + INT32_MAX) + 1) + ((b + INT32_MAX) + 1)

U32Neg(a) == IF a = -INT32_MAX - 1 THEN a ELSE -a

U32Sub(a, b) == U32Add(a, U32Neg(b))

\* a < b as unsigned values
U32Lt(a, b) ==
  IF (a >= 0) = (b >= 0) THEN a < b ELSE a >= 0

U32Le(a, b) == a = b \/ U32Lt(a, b)

U32Min(a, b) == IF U32Lt(a, b) THEN a ELSE b

U32Max(a, b) == IF U32Lt(a, b) THEN b ELSE a

RECURSIVE U32MulNat(_, _)
U32MulNat(a, n) ==
  IF n = 0 THEN 0
  ELSE LET h == U32MulNat(a, n \div 2)
           d == U32Add(h, h)
       IN  IF n % 2 = 1 THEN U32Add(d, a) ELSE d

\* a * b modulo 2^32
U32Mul(a, b) ==
  IF b >= 0 THEN U32MulNat(a, b)
  ELSE IF a >= 0 THEN U32MulNat(b, a)
  ELSE IF b = -INT32_MAX - 1 THEN (IF a % 2 = 0 THEN 0 ELSE b)
  ELSE U32Neg(U32MulNat(a, -b))

\* a / d on unsigned values, d /= 0
U32Div(a, d) ==
  IF d < 0 THEN (IF U32Lt(a, d) THEN 0 ELSE 1)
  ELSE IF a >= 0 THEN a \div d
  ELSE IF d = 1 THEN a
  ELSE LET t == (a + INT32_MAX) + 1      \* a's value minus 2^31
       IN  (t \div d) + (INT32_MAX \div d)
           + (((t % d) + (INT32_MAX % d) + 1) \div d)

(***************************************************************************)
(* uint64_t microsecond and joule quantities.  A value is held as the pair *)
(* <<hi, lo>> standing for hi * 1000000 + lo with 0 <= lo < 1000000; the   *)
(* model's values stay far below 2^64, so no uint64_t operation wraps.     *)
(***************************************************************************)
Million == 1000000

U64Norm(hi, lo) == <<hi + (lo \div Million), lo % Million>>

U64Zero == <<0, 0>>

U64Add(a, b) == U64Norm(a[1] + b[1], a[2] + b[2])

U64Lt(a, b) == a[1] < b[1] \/ (a[1] = b[1] /\ a[2] < b[2])

\* a - b for a >= b
U64Sub(a, b) ==
  IF a[2] >= b[2] THEN <<a[1] - b[1], a[2] - b[2]>>
  ELSE <<a[1] - b[1] - 1, (a[2] + Million) - b[2]>>

\* q * d for a small q; q * d[2] is summed in parts that stay below 2^31
U64MulSmall(q, d) ==
  LET qh == q \div 1000
      ql == q % 1000
      dh == d[2] \div 1000
      dl == (d[2] % 1000) * 1000
  IN  U64Norm((q * d[1]) + (qh * dh), (qh * dl) + (ql * d[2]))

\* (joules * 1000000) / dt, dt /= 0: the quotient q with q*dt <= n < (q+1)*dt
U64DivMillion(joules, dt) ==
  IF dt[1] = 0 THEN (joules * Million) \div dt[2]
  ELSE LET n == <<joules, 0>>
       IN  CHOOSE q \in (joules \div (dt[1] + 1)) .. (joules \div dt[1]) :
             /\ ~U64Lt(n, U64MulSmall(q, dt))
             /\ U64Lt(n, U64MulSmall(q + 1, dt))

(***************************************************************************)
(* State.                                                                  *)
(***************************************************************************)
VARIABLES
  conf,               \* the static configuration variables (lines 133-143)
  now,                \* time(NULL)
  node_record_table,  \* node_record_table_ptr[]: index = nid, name "nid%05d"
  job_list,           \* the job table
  hw_cap,             \* the cap installed on each node, as capmc holds it
  pc,                 \* position of the power-agent worker in its pass
  cmd_resp,           \* status and body returned by the last capmc child
  alloc,              \* locals of _rebalance_node_power
  node_power_list,    \* the change list handed to _set_power_caps
  iter,               \* _set_power_caps: pass number and list position
  capmc_log,          \* set_power_cap invocations made, in order
  hw_entry,           \* history: hw_cap as it was when _set_power_caps began
  power_params,       \* PowerParameters as slurm_get_power_parameters reads it
  stop_power,         \* static bool stop_power
  power_thread,       \* static pthread_t power_thread: 0 or a thread id
  thread_flag_mutex,  \* holder of thread_flag_mutex: "none" or the call
  agents,             \* the _power_agent threads created so far, by id
  last_balance_time,  \* _power_agent's local, written at lines 1227, 1268
  last_cap_watts,     \* static local of _power_agent (line 1217)
  init_rc,            \* what the last init() returned
  in_daemon,          \* run_in_daemon("slurmctld") of this process
  term_lock,          \* holder of term_lock: "none", "agent" or "fini"
  signaled,           \* term_cond: the waiting worker has been signalled
  fini_pc,            \* position of the fini() call in progress, or "idle"
  stop_at,            \* history: the worker's position when stop_power was set
  slurmctld_lock,     \* the slurmctld locks the worker holds (job, node)
  full_nid_string,    \* static char *full_nid_string: built (TRUE) or NULL
  hist,               \* history: executed ticks begun, cap_watts as the last
                      \* of them found it, time of the last get_node_rules
                      \* invocation, time of the later of the worker's start
                      \* and the end of its last executed tick
  script_argv         \* the strings script_argv[0] and script_argv[3] of the
                      \* worker point at, while it starts a child: "unset",
                      \* "valid" (allocated), "freed", or "NULL"

vars == <<conf, now, node_record_table, job_list, hw_cap, pc, cmd_resp,
          alloc, node_power_list, iter, capmc_log, hw_entry, power_params,
          stop_power, power_thread, thread_flag_mutex, agents,
          last_balance_time, last_cap_watts, init_rc, in_daemon, term_lock,
          signaled, fini_pc, stop_at, slurmctld_lock, full_nid_string, hist,
          script_argv>>

\* the plugin's thread and configuration-source state
life == <<power_params, stop_power, power_thread, thread_flag_mutex, agents,
          last_balance_time, last_cap_watts, init_rc, in_daemon, term_lock,
          signaled, fini_pc, stop_at>>

\* the worker's host locks, the cached nid string, the history of the run
\* and the argument vector of the child being started
rest == <<slurmctld_lock, full_nid_string, hist, script_argv>>

Nids == DOMAIN node_record_table

node_record_count == Cardinality(Nids)

NO_VAL == -2            \* 0xfffffffe as a uint32_t
INFINITE == -1          \* 0xffffffff as a uint32_t

DEFAULT_BALANCE_INTERVAL == 30
DEFAULT_CAP_WATTS == 0
DEFAULT_DECREASE_RATE == 50
DEFAULT_INCREASE_RATE == 20
DEFAULT_LOWER_THRESHOLD == 90
DEFAULT_UPPER_THRESHOLD == 95
DEFAULT_RECENT_JOB == 300

\* the static variables as initialised at load time
StaticConf ==
  [ balance_interval |-> DEFAULT_BALANCE_INTERVAL,
    cap_watts        |-> DEFAULT_CAP_WATTS,
    decrease_rate    |-> DEFAULT_DECREASE_RATE,
    increase_rate    |-> DEFAULT_INCREASE_RATE,
    job_level        |-> NO_VAL,
    lower_threshold  |-> DEFAULT_LOWER_THRESHOLD,
    recent_job       |-> DEFAULT_RECENT_JOB,
    upper_threshold  |-> DEFAULT_UPPER_THRESHOLD ]

\* A PowerParameters string: a function from the keys that occur in it to
\* the number atoi/strtol reads after "key=" (balance_interval as an int, the
\* others as uint32_t); "cap_suffix" is the character after the cap_watts
\* number, "level" the word job_level or job_no_level.
Has(p, key) == key \in DOMAIN p

\* _load_config on the string p, from the configuration c
load_config(c, p) ==
  LET c1 == IF ~Has(p, "balance_interval") THEN c
            ELSE [c EXCEPT !.balance_interval =
                    IF p.balance_interval < 1 THEN DEFAULT_BALANCE_INTERVAL
                    ELSE p.balance_interval]
      c2 == IF ~Has(p, "cap_watts") THEN c1
            ELSE [c1 EXCEPT !.cap_watts =
                    IF p.cap_watts = 0 THEN DEFAULT_CAP_WATTS
                    ELSE IF Has(p, "cap_suffix") /\ p.cap_suffix \in {"k", "K"}
                         THEN U32Mul(p.cap_watts, 1000)
                    ELSE IF Has(p, "cap_suffix") /\ p.cap_suffix \in {"m", "M"}
                         THEN U32Mul(p.cap_watts, 1000000)
                    ELSE p.cap_watts]
      c3 == IF ~Has(p, "decrease_rate") THEN c2
            ELSE IF p.decrease_rate = 0
                 THEN [c2 EXCEPT !.decrease_rate = 0,
                                 !.lower_threshold = DEFAULT_DECREASE_RATE]
                 ELSE [c2 EXCEPT !.decrease_rate = p.decrease_rate]
      c4 == IF ~Has(p, "increase_rate") THEN c3
            ELSE IF p.increase_rate = 0
                 THEN [c3 EXCEPT !.increase_rate = 0,
                                 !.lower_threshold = DEFAULT_INCREASE_RATE]
                 ELSE [c3 EXCEPT !.increase_rate = p.increase_rate]
      c5 == [c4 EXCEPT !.job_level =
               IF Has(p, "level") /\ p.level = "job_level" THEN 1
               ELSE IF Has(p, "level") /\ p.level = "job_no_level" THEN 0
               ELSE NO_VAL]
      c6 == IF ~Has(p, "lower_threshold") THEN c5
            ELSE [c5 EXCEPT !.lower_threshold =
                    IF p.lower_threshold = 0 THEN DEFAULT_LOWER_THRESHOLD
                    ELSE p.lower_threshold]
      c7 == IF ~Has(p, "recent_job") THEN c6
            ELSE [c6 EXCEPT !.recent_job =
                    IF p.recent_job = 0 THEN DEFAULT_RECENT_JOB
                    ELSE p.recent_job]
  IN  IF ~Has(p, "upper_threshold") THEN c7
      ELSE [c7 EXCEPT !.upper_threshold =
              IF p.upper_threshold = 0 THEN DEFAULT_UPPER_THRESHOLD
              ELSE p.upper_threshold]

\* a power_mgmt_data_t as xmalloc returns it
ZeroPower ==
  [ cap_watts |-> 0, current_watts |-> 0, joule_counter |-> 0,
    new_cap_watts |-> 0, max_watts |-> 0, min_watts |-> 0,
    new_job_time |-> 0, state |-> 0, time_usec |-> U64Zero ]

NoAlloc ==
  [ alloc_power |-> 0, avail_power |-> 0, node_power_raise_cnt |-> 0,
    node_power_needed |-> 0, node_power_same_cnt |-> 0,
    node_power_lower_cnt |-> 0 ]

NoIter == [pass |-> 0, pos |-> 0]

\* no child has run yet
NoResp == [status |-> 0, body |-> "none", ents |-> <<>>]

\* slurmctld_lock_t values of this file (the config and partition locks are
\* NO_LOCK in all of them): lines 878-879, 613-614, 1222-1223
no_locks == [job |-> "NO_LOCK", node |-> "NO_LOCK"]

write_node_lock == [job |-> "NO_LOCK", node |-> "WRITE_LOCK"]

read_node_lock == [job |-> "NO_LOCK", node |-> "READ_LOCK"]

read_locks == [job |-> "READ_LOCK", node |-> "READ_LOCK"]

\* no child is being started
NoArgv == [capmc_path |-> "unset", full_nid_string |-> "unset"]

\* xfree(capmc_path) and xfree(full_nid_string), lines 246 and 323 (and
\* 1743-1744): the strings script_argv points at are released with them
released(argv) ==
  [k \in DOMAIN argv |-> IF argv[k] = "valid" THEN "freed" ELSE argv[k]]

\* no tick executed, get_node_rules never run
NoHist == [ticks |-> 0, cap_watts |-> 0, capabilities_at |-> 0, since |-> 0]

\* the plugin as loaded: no stop requested, no thread, nothing configured
LoadedLife(params) ==
  /\ power_params = params
  /\ stop_power = FALSE
  /\ power_thread = 0
  /\ thread_flag_mutex = "none"
  /\ agents = <<>>
  /\ last_balance_time = 0
  /\ last_cap_watts = NO_VAL
  /\ init_rc = "none"
  /\ in_daemon \in BOOLEAN
  /\ term_lock = "none"
  /\ signaled = FALSE
  /\ fini_pc = "idle"
  /\ stop_at = "none"
  /\ slurmctld_lock = no_locks
  /\ full_nid_string = FALSE
  /\ hist = NoHist
  /\ script_argv = NoArgv

\* the plugin with its worker inside a tick (past line 1240) under the
\* configuration c: init() has returned, nobody has asked for a stop
TickingLife(params, c) ==
  /\ power_params = params
  /\ stop_power = FALSE
  /\ power_thread = 1
  /\ thread_flag_mutex = "none"
  /\ agents = <<"running">>
  /\ last_balance_time = now - c.balance_interval
  /\ last_cap_watts = c.cap_watts
  /\ init_rc = "SLURM_SUCCESS"
  /\ in_daemon = TRUE
  /\ term_lock = "none"
  /\ signaled = FALSE
  /\ fini_pc = "idle"
  /\ stop_at = "none"
  /\ hist = [ticks |-> 1, cap_watts |-> c.cap_watts, capabilities_at |-> now,
             since |-> now - c.balance_interval]
  /\ script_argv = NoArgv

\* the members of the hostset in the order hostset_ranged_string names them
RECURSIVE SortedSeq(_)
SortedSeq(S) ==
  IF S = {} THEN <<>>
  ELSE LET m == CHOOSE x \in S : \A y \in S : x <= y
       IN  <<m>> \o SortedSeq(S \ {m})

\* a NULL List
NullList == [null |-> TRUE, recs |-> <<>>]

(***************************************************************************)
(* Energy ingest: _get_node_energy_counter.                                *)
(***************************************************************************)
\* _time_str2num: a time string is the sequence of the integers sscanf
\* converts with "%d-%d-%d %d:%d:%d.%d-%d" (year, month, day, hour, min,
\* sec, u_sec, unk), cut where the text stops matching
time_str2num(time_str) ==
  IF Len(time_str) >= 6
  THEN LET hour  == time_str[4]
           min   == time_str[5]
           sec   == time_str[6]
           u_sec == IF Len(time_str) >= 7 THEN time_str[7] ELSE 0
       IN  U64Norm((((hour * 60) + min) * 60) + sec, u_sec)
  ELSE U64Zero

usecs_day == U64Norm(24 * 60 * 60, 0)

\* energy_entry without the midnight-wrap branch of lines 1090-1097
energy_entry_no_wrap(power, ent) ==
  LET ent_time == time_str2num(ent.time)
      delta_time ==
        IF ent_time = U64Zero \/ power.time_usec = U64Zero THEN U64Zero
        ELSE IF U64Lt(power.time_usec, ent_time)
             THEN U64Sub(ent_time, power.time_usec)
        ELSE U64Zero
      watts ==
        IF delta_time /= U64Zero /\ power.joule_counter < ent.energy_ctr
        THEN U64DivMillion(ent.energy_ctr - power.joule_counter, delta_time)
        ELSE power.current_watts
  IN  [power EXCEPT !.current_watts = watts,
                    !.joule_counter = ent.energy_ctr,
                    !.time_usec = ent_time]

\* energy_entry with "<=" in place of the "<" of line 1090: a fresh timestamp
\* equal to the stored one counts as a wrap of a whole day
energy_entry_equal_wraps(power, ent) ==
  LET ent_time == time_str2num(ent.time)
      delta_time ==
        IF ent_time = U64Zero \/ power.time_usec = U64Zero THEN U64Zero
        ELSE IF U64Lt(power.time_usec, ent_time)
             THEN U64Sub(ent_time, power.time_usec)
        ELSE IF U64Lt(power.time_usec, U64Add(ent_time, usecs_day))
             THEN U64Sub(U64Add(ent_time, usecs_day), power.time_usec)
        ELSE U64Zero
      watts ==
        IF delta_time /= U64Zero /\ power.joule_counter < ent.energy_ctr
        THEN U64DivMillion(ent.energy_ctr - power.joule_counter, delta_time)
        ELSE power.current_watts
  IN  [power EXCEPT !.current_watts = watts,
                    !.joule_counter = ent.energy_ctr,
                    !.time_usec = ent_time]

\* lines 1080-1112: one entry of the response against the node's record
energy_entry(power, ent) ==
  LET ent_time == time_str2num(ent.time)
      delta_time ==
        IF ent_time = U64Zero \/ power.time_usec = U64Zero THEN U64Zero
        ELSE IF U64Lt(power.time_usec, ent_time)
             THEN U64Sub(ent_time, power.time_usec)
        ELSE IF /\ U64Lt(ent_time, power.time_usec)
                /\ U64Lt(power.time_usec, U64Add(ent_time, usecs_day))
             THEN U64Sub(U64Add(ent_time, usecs_day), power.time_usec)
        ELSE U64Zero
      watts ==
        IF delta_time /= U64Zero /\ power.joule_counter < ent.energy_ctr
        THEN U64DivMillion(ent.energy_ctr - power.joule_counter, delta_time)
        ELSE power.current_watts
  IN  [power EXCEPT !.current_watts = watts,
                    !.joule_counter = ent.energy_ctr,
                    !.time_usec = ent_time]

\* energy_reset without the else branch of lines 1068-1069
energy_reset_keep_watts(table) ==
  [i \in DOMAIN table |->
     IF table[i].power = NULL_POWER THEN [table[i] EXCEPT !.power = ZeroPower]
     ELSE table[i]]

\* lines 1064-1070: every node gets a record, every old record loses its
\* current_watts
energy_reset(table) ==
  [i \in DOMAIN table |->
     IF table[i].power = NULL_POWER THEN [table[i] EXCEPT !.power = ZeroPower]
     ELSE [table[i] EXCEPT !.power.current_watts = 0]]

\* lines 1073-1117: the entries in order; find_node_record2 fails for a nid
\* that is not in the table
RECURSIVE energy_entries(_, _)
energy_entries(table, ents) ==
  IF ents = <<>> THEN table
  ELSE LET e == Head(ents)
           t == IF e.nid \in DOMAIN table
                THEN [table EXCEPT ![e.nid].power = energy_entry(@, e)]
                ELSE table
       IN  energy_entries(t, Tail(ents))

\* the responses of "capmc get_node_energy_counter" the model draws: each
\* node is left out or named once with a counter and a time string, and the
\* response may name a node slurm does not know
EnergyCounters == {999000, 1000000, 1002000, 1086400}

TimeStrings ==
  { <<>>,                                    \* text sscanf cannot convert
    <<2015, 2, 19, 0, 0, 1, 0, 6>>,
    <<2015, 2, 19, 12, 0, 0, 0, 6>>,
    <<2015, 2, 19, 12, 0, 10, 500000, 6>> }

EnergyEnts(n) ==
  { <<>> } \cup
  { <<[nid |-> n, energy_ctr |-> j, time |-> t]>> :
      j \in EnergyCounters, t \in TimeStrings }

RECURSIVE EnergyBodies(_)
EnergyBodies(n) ==
  IF n = 0 THEN { <<>>, <<[nid |-> 99, energy_ctr |-> 1002000,
                          time |-> <<2015, 2, 19, 12, 0, 0, 0, 6>>]>> }
  ELSE { b \o e : b \in EnergyBodies(n - 1), e \in EnergyEnts(n) }

\* lines 1017-1030: _build_full_nid_string, which takes and releases the
\* node read lock when it has to build the string, then
\* power_run_script("capmc", ... get_node_energy_counter ...)
EnergyRun ==
  /\ pc = "energy_run"
  /\ \/ \E st \in {0, 1}, b \in {"empty", "garbage"} :
          cmd_resp' = [status |-> st, body |-> b, ents |-> <<>>]
     \/ \E ents \in EnergyBodies(node_record_count) :
          cmd_resp' = [status |-> 0, body |-> "json", ents |-> ents]
  /\ full_nid_string' = TRUE
  /\ pc' = "energy_resp"
  /\ UNCHANGED <<conf, now, node_record_table, job_list, hw_cap, alloc,
                 node_power_list, iter, capmc_log, hw_entry, life,
                 slurmctld_lock, hist, script_argv>>

\* _get_node_energy_counter from the child's return on, lines 1031-1120
get_node_energy_counter(table, resp) ==
  IF resp.status /= 0 \/ resp.body /= "json" THEN table
  ELSE energy_entries(energy_reset(table), resp.ents)

EnergyIngest ==
  /\ pc = "energy_resp"
  /\ node_record_table' = get_node_energy_counter(node_record_table, cmd_resp)
  /\ pc' = "ready_run"
  /\ UNCHANGED <<conf, now, job_list, hw_cap, cmd_resp, alloc,
                 node_power_list, iter, capmc_log, hw_entry, life, rest>>

\* the stored samples an energy ingest can find: no record yet, a record
\* straight from xmalloc, or a record holding an earlier sample
StoredPowers ==
  { NULL_POWER, ZeroPower } \cup
  { [ZeroPower EXCEPT !.joule_counter = 1000000, !.time_usec = t,
                      !.current_watts = w] :
      t \in { U64Norm(43200, 0), U64Norm(86399, 0) }, w \in {77} }

InitEnergy ==
  /\ conf = load_config(StaticConf, <<>>)
  /\ now = 1000
  /\ node_record_table \in [1 .. EnergyNodes -> [power : StoredPowers]]
  /\ job_list = <<>>
  /\ hw_cap = [i \in 1 .. EnergyNodes |-> 0]
  /\ pc = "energy_run"
  /\ slurmctld_lock = no_locks
  /\ full_nid_string = TRUE
  /\ cmd_resp = NoResp
  /\ alloc = NoAlloc
  /\ node_power_list = NullList
  /\ iter = NoIter
  /\ capmc_log = <<>>
  /\ hw_entry = hw_cap
  /\ TickingLife(<<>>, conf)

NextEnergy == EnergyRun \/ EnergyIngest

SpecEnergy == InitEnergy /\ [][NextEnergy]_vars

(***************************************************************************)
(* The other ingests: _get_caps, _get_capabilities, _get_nodes_ready.      *)
(***************************************************************************)
\* static time_t last_cap_read of line 1216: no statement assigns it
last_cap_read == 0

\* what power_run_script hands back when the child fails: a nonzero status
\* (with whatever it printed), or status 0 with no output or with text
\* json_tokener_parse rejects
FailedResps ==
  { [status |-> st, body |-> b, ents |-> <<>>] :
      st \in {0, 1}, b \in {"empty", "garbage"} }

\* lines 361-379, 676-694, 898-915, 1031-1050: the function returns before
\* it touches the node table
ChildFailed(resp) == resp.status /= 0 \/ resp.body /= "json"

\* lines 713-717: the node's record, allocated when missing
RecordOf(power) == IF power = NULL_POWER THEN ZeroPower ELSE power

\* lines 707-721: the "nids" entries in order
RECURSIVE caps_entries(_, _)
caps_entries(table, ents) ==
  IF ents = <<>> THEN table
  ELSE LET e == Head(ents)
           t == IF e.nid \in DOMAIN table
                THEN [table EXCEPT ![e.nid].power =
                        [RecordOf(@) EXCEPT !.cap_watts = e.cap_watts]]
                ELSE table
       IN  caps_entries(t, Tail(ents))

\* _get_caps from the child's return on, lines 676-724
get_caps(table, resp) ==
  IF ChildFailed(resp) THEN table ELSE caps_entries(table, resp.ents)

\* the responses of "capmc get_power_cap" the model draws: no "nids" array,
\* or the cap capmc holds for every node, with or without an entry for a
\* node slurm does not know
CapsBodies ==
  LET held == [i \in 1 .. node_record_count |->
                 [nid |-> i, cap_watts |-> hw_cap[i]]]
  IN  { <<>>, held, held \o <<[nid |-> 99, cap_watts |-> 250]>> }

\* lines 662-675: _build_full_nid_string, which takes and releases the node
\* read lock when it has to build the string, then
\* power_run_script("capmc", ... get_power_cap ...)
CapsRun ==
  /\ pc = "caps_run"
  /\ \/ \E r \in FailedResps : cmd_resp' = r
     \/ \E ents \in CapsBodies :
          cmd_resp' = [status |-> 0, body |-> "json", ents |-> ents]
  /\ full_nid_string' = TRUE
  /\ pc' = "caps_resp"
  /\ UNCHANGED <<conf, now, node_record_table, job_list, hw_cap, alloc,
                 node_power_list, iter, capmc_log, hw_entry, life,
                 slurmctld_lock, hist, script_argv>>

\* lines 676-724, then the test of lines 1247-1248
CapsIngest ==
  /\ pc = "caps_resp"
  /\ node_record_table' = get_caps(node_record_table, cmd_resp)
  /\ pc' = IF now - last_cap_read > 600 THEN "capabilities_run"
           ELSE "energy_run"
  /\ UNCHANGED <<conf, now, job_list, hw_cap, cmd_resp, alloc,
                 node_power_list, iter, capmc_log, hw_entry, life, rest>>

\* lines 395-413: the nids of one group from position j on
RECURSIVE capabilities_nodes(_, _, _)
capabilities_nodes(table, g, j) ==
  IF j > Len(g.nids) THEN table
  ELSE LET n == g.nids[j]
           t == IF n \in DOMAIN table
                THEN [table EXCEPT ![n].power =
                        [RecordOf(@) EXCEPT !.max_watts = g.node_max_watts,
                                            !.min_watts = g.node_min_watts]]
                ELSE table
       IN  capabilities_nodes(t, g, j + 1)

\* lines 392-425: the "groups" entries in order
RECURSIVE capabilities_entries(_, _)
capabilities_entries(table, ents) ==
  IF ents = <<>> THEN table
  ELSE capabilities_entries(capabilities_nodes(table, Head(ents), 1),
                            Tail(ents))

\* _get_capabilities from the child's return on, lines 361-428
get_capabilities(table, resp) ==
  IF ChildFailed(resp) THEN table
  ELSE capabilities_entries(table, resp.ents)

\* the nids below n + 1 with i % 2 = r, in order
RECURSIVE NidsMod(_, _)
NidsMod(n, r) ==
  IF n = 0 THEN <<>>
  ELSE NidsMod(n - 1, r) \o (IF n % 2 = r THEN <<n>> ELSE <<>>)

\* the responses of "capmc get_power_cap_capabilities" the model draws: no
\* "groups" array, or the two groups of the machine (the odd nids 100-400 W,
\* the even nids and an unknown one 200-300 W)
CapabilitiesBodies ==
  { <<>>,
    << [nids |-> NidsMod(node_record_count, 1),
        node_min_watts |-> 100, node_max_watts |-> 400],
       [nids |-> NidsMod(node_record_count, 0) \o <<99>>,
        node_min_watts |-> 200, node_max_watts |-> 300] >> }

\* power_run_script("capmc", ... get_power_cap_capabilities), lines 353-360
CapabilitiesRun ==
  /\ pc = "capabilities_run"
  /\ \/ \E r \in FailedResps : cmd_resp' = r
     \/ \E ents \in CapabilitiesBodies :
          cmd_resp' = [status |-> 0, body |-> "json", ents |-> ents]
  /\ hist' = [hist EXCEPT !.capabilities_at = now]
  /\ pc' = "capabilities_resp"
  /\ UNCHANGED <<conf, now, node_record_table, job_list, hw_cap, alloc,
                 node_power_list, iter, capmc_log, hw_entry, life,
                 slurmctld_lock, full_nid_string, script_argv>>

\* lines 361-428, then line 1252
CapabilitiesIngest ==
  /\ pc = "capabilities_resp"
  /\ node_record_table' = get_capabilities(node_record_table, cmd_resp)
  /\ pc' = "energy_run"
  /\ UNCHANGED <<conf, now, job_list, hw_cap, cmd_resp, alloc,
                 node_power_list, iter, capmc_log, hw_entry, life, rest>>

\* nodes_ready_reset without the else branch of lines 932-933
nodes_ready_keep_state(table) ==
  [i \in DOMAIN table |->
     IF table[i].power = NULL_POWER THEN [table[i] EXCEPT !.power = ZeroPower]
     ELSE table[i]]

\* lines 928-934: every node gets a record, every old record loses its state
nodes_ready_reset(table) ==
  [i \in DOMAIN table |->
     IF table[i].power = NULL_POWER THEN [table[i] EXCEPT !.power = ZeroPower]
     ELSE [table[i] EXCEPT !.power.state = 0]]

\* lines 936-945: the nids of one entry from position j on
RECURSIVE ready_nodes(_, _, _)
ready_nodes(table, e, j) ==
  IF j > Len(e.nids) THEN table
  ELSE LET n == e.nids[j]
           t == IF n \in DOMAIN table
                THEN [table EXCEPT ![n].power.state = e.state]
                ELSE table
       IN  ready_nodes(t, e, j + 1)

\* lines 935-947
RECURSIVE ready_entries(_, _)
ready_entries(table, ents) ==
  IF ents = <<>> THEN table
  ELSE ready_entries(ready_nodes(table, Head(ents), 1), Tail(ents))

\* _get_nodes_ready with the sweep of lines 928-934 ahead of the tests of
\* lines 898-915
get_nodes_ready_reset_first(table, resp) ==
  IF ChildFailed(resp) THEN nodes_ready_reset(table)
  ELSE ready_entries(nodes_ready_reset(table), resp.ents)

\* _get_nodes_ready from the child's return on, lines 898-950
get_nodes_ready(table, resp) ==
  IF ChildFailed(resp) THEN table
  ELSE ready_entries(nodes_ready_reset(table), resp.ents)

\* the responses of "capmc node_status" the model draws: no "ready" array,
\* or a "ready" array naming some of the nodes, or all and an unknown one
ReadyBodies ==
  { <<>> } \cup
  { << [state |-> 1, nids |-> SortedSeq(S)] >> : S \in SUBSET Nids } \cup
  { << [state |-> 1, nids |-> SortedSeq(Nids) \o <<99>>] >> }

\* power_run_script("capmc", ... node_status), lines 888-897
ReadyRun ==
  /\ pc = "ready_run"
  /\ \/ \E r \in FailedResps : cmd_resp' = r
     \/ \E ents \in ReadyBodies :
          cmd_resp' = [status |-> 0, body |-> "json", ents |-> ents]
  /\ pc' = "ready_resp"
  /\ UNCHANGED <<conf, now, node_record_table, job_list, hw_cap, alloc,
                 node_power_list, iter, capmc_log, hw_entry, life, rest>>

\* lines 898-950, then lines 1254-1260: the worker takes read_locks for the
\* allocator (get_cluster_power only reports)
ReadyIngest ==
  /\ pc = "ready_resp"
  /\ node_record_table' = get_nodes_ready(node_record_table, cmd_resp)
  /\ slurmctld_lock' = read_locks
  /\ pc' = "balance"
  /\ UNCHANGED <<conf, now, job_list, hw_cap, cmd_resp, alloc,
                 node_power_list, iter, capmc_log, hw_entry, life,
                 full_nid_string, hist, script_argv>>

(***************************************************************************)
(* Allocation: _rebalance_node_power, lines 1400-1617.                     *)
(***************************************************************************)
\* Phase A, lines 1417-1462: one node against the configuration c; al are
\* the function's locals
lower_node(c, power, al) ==
  IF power = NULL_POWER THEN [power |-> power, al |-> al]
  ELSE IF power.state /= 1
  THEN LET nc == IF power.cap_watts = 0 THEN power.max_watts
                 ELSE power.cap_watts
       IN  [power |-> [power EXCEPT !.new_cap_watts = nc],
            al    |-> [al EXCEPT !.alloc_power = U32Add(@, nc)]]
  ELSE IF power.cap_watts = 0 \/ power.current_watts = 0
  THEN [power |-> [power EXCEPT !.new_cap_watts = 0], al |-> al]
  ELSE IF U32Lt(power.current_watts,
                U32Mul(power.cap_watts, c.lower_threshold))
  THEN LET ave_power == U32Div(U32Sub(power.cap_watts,
                                      power.current_watts), 2)
           tmp_u32   == U32Div(U32Mul(U32Sub(power.max_watts,
                                             power.min_watts),
                                      c.decrease_rate), 100)
           new_cap   == U32Sub(power.cap_watts, U32Min(tmp_u32, ave_power))
           nc        == U32Max(new_cap, power.min_watts)
       IN  [power |-> [power EXCEPT !.new_cap_watts = nc],
            al    |-> [al EXCEPT !.alloc_power = U32Add(@, nc),
                                 !.node_power_lower_cnt = @ + 1]]
  ELSE IF U32Lt(power.current_watts,
                U32Mul(power.cap_watts, c.upper_threshold))
  THEN LET nc == U32Max(power.cap_watts, power.min_watts)
       IN  [power |-> [power EXCEPT !.new_cap_watts = nc],
            al    |-> [al EXCEPT !.alloc_power = U32Add(@, nc),
                                 !.node_power_same_cnt = @ + 1]]
  ELSE [power |-> [power EXCEPT !.new_cap_watts = 0],
        al    |-> [al EXCEPT !.node_power_raise_cnt = @ + 1,
                             !.node_power_needed =
                                U32Add(@, power.min_watts)]]

\* the loop of lines 1415-1463 from node i on
RECURSIVE lower_loop(_, _, _, _)
lower_loop(c, table, al, i) ==
  IF i > Cardinality(DOMAIN table) THEN [table |-> table, al |-> al]
  ELSE LET r == lower_node(c, table[i].power, al)
       IN  lower_loop(c, [table EXCEPT ![i].power = r.power], r.al, i + 1)

\* the clawback loop of lines 1477-1486 from node i on
RECURSIVE claw_loop(_, _, _, _)
claw_loop(table, al, red1, i) ==
  IF i > Cardinality(DOMAIN table) THEN [table |-> table, al |-> al]
  ELSE LET power == table[i].power
       IN  IF power = NULL_POWER \/ power.new_cap_watts = 0
           THEN claw_loop(table, al, red1, i + 1)
           ELSE LET tmp_u32 == U32Min(U32Sub(power.new_cap_watts,
                                             power.min_watts), red1)
                IN  claw_loop(
                      [table EXCEPT ![i].power.new_cap_watts =
                                       U32Sub(@, tmp_u32)],
                      [al EXCEPT !.alloc_power = U32Sub(@, tmp_u32)],
                      red1, i + 1)

\* line 1467: the clawback condition, on the locals after lines 1465-1466
claw_needed(c, al) ==
  \/ U32Lt(c.cap_watts, al.alloc_power)
  \/ U32Lt(al.avail_power, al.node_power_needed)

\* lines 1465-1466
avail_set(c, al) ==
  IF U32Lt(al.alloc_power, c.cap_watts)
  THEN [al EXCEPT !.avail_power = U32Sub(c.cap_watts, al.alloc_power)]
  ELSE al

\* lines 1470-1475: the power to take back, before it is divided
claw_excess(c, al) ==
  LET red1 == IF U32Lt(c.cap_watts, al.alloc_power)
              THEN U32Sub(al.alloc_power, c.cap_watts) ELSE 0
      red2 == IF U32Lt(al.avail_power, al.node_power_needed)
              THEN U32Sub(al.node_power_needed, al.avail_power) ELSE 0
  IN  U32Max(red1, red2)

\* lines 1477-1487: the loop with the per-node reduction red1, and the
\* recomputed avail_power
clawback(c, table, al, red1) ==
  LET r == claw_loop(table, al, red1, 1)
  IN  [table |-> r.table,
       al    |-> [r.al EXCEPT !.avail_power =
                                 U32Sub(c.cap_watts, r.al.alloc_power)]]

\* Phase C, lines 1503-1521: the cap a node with new_cap_watts = 0 gets
raise_cap(c, power, ave_power, recent) ==
  LET new_cap ==
        IF \/ power.new_job_time = 0
           \/ power.new_job_time > recent
           \/ power.cap_watts = 0
        THEN ave_power
        ELSE LET tmp_u32 == U32Div(U32Mul(U32Sub(power.max_watts,
                                                 power.min_watts),
                                          c.increase_rate), 100)
             IN  U32Min(U32Add(power.cap_watts, tmp_u32), ave_power)
  IN  U32Min(U32Max(new_cap, power.min_watts), power.max_watts)

\* the loop of lines 1497-1533 from node i on
RECURSIVE raise_loop(_, _, _, _, _, _)
raise_loop(c, table, al, ave_power, recent, i) ==
  IF i > Cardinality(DOMAIN table) THEN [table |-> table, al |-> al]
  ELSE LET power == table[i].power
       IN  IF power = NULL_POWER \/ power.new_cap_watts /= 0
           THEN raise_loop(c, table, al, ave_power, recent, i + 1)
           ELSE LET nc  == raise_cap(c, power, ave_power, recent)
                    av  == IF U32Lt(nc, al.avail_power)
                           THEN U32Sub(al.avail_power, nc) ELSE 0
                    cnt == al.node_power_raise_cnt - 1
                    t2  == [table EXCEPT ![i].power.new_cap_watts = nc]
                    al2 == [al EXCEPT !.avail_power = av,
                                      !.node_power_raise_cnt = cnt]
                IN  IF cnt = 0 THEN [table |-> t2, al |-> al2]
                    ELSE raise_loop(c, t2, al2,
                                    IF nc /= ave_power
                                    THEN U32Div(av, cnt) ELSE ave_power,
                                    recent, i + 1)

\* lines 1494-1534
distribute(c, table, al, recent) ==
  IF al.node_power_raise_cnt /= 0
  THEN raise_loop(c, table, al,
                  U32Div(al.avail_power, al.node_power_raise_cnt),
                  recent, 1)
  ELSE [table |-> table, al |-> al]

(***************************************************************************)
(* Levelling: _level_power_by_job, lines 1332-1396.                        *)
(***************************************************************************)
\* the nodes of the job's bitmap the two loops visit: power record, ready
level_nodes(table, job) ==
  { i \in job.node_bitmap \cap DOMAIN table :
      table[i].power /= NULL_POWER /\ table[i].power.state = 1 }

\* lines 1365-1370 over the nodes in S, in any order (the sums commute)
RECURSIVE level_sum(_, _)
level_sum(table, S) ==
  IF S = {} THEN [total_watts |-> 0, max_watts |-> 0, min_watts |-> INFINITE]
  ELSE LET i == CHOOSE x \in S : TRUE
           r == level_sum(table, S \ {i})
           w == table[i].power.new_cap_watts
       IN  [total_watts |-> U32Add(r.total_watts, w),
            max_watts   |-> U32Max(r.max_watts, w),
            min_watts   |-> U32Min(r.min_watts, w)]

\* level_selected without the IS_JOB_RUNNING test of line 1343
level_selected_not_running(c, job) ==
  ~(c.job_level = NO_VAL /\ ~job.level_flag)

\* lines 1343-1347: the jobs the loop does not skip
level_selected(c, job) ==
  /\ job.running
  /\ ~(c.job_level = NO_VAL /\ ~job.level_flag)

\* one iteration of the while loop of lines 1342-1394
level_job(c, table, job) ==
  IF ~level_selected(c, job) THEN table
  ELSE LET S == level_nodes(table, job)
           r == level_sum(table, S)
       IN  IF Cardinality(S) < 2 \/ r.min_watts = r.max_watts THEN table
           ELSE [i \in DOMAIN table |->
                   IF i \in S
                   THEN [table[i] EXCEPT !.power.new_cap_watts =
                           U32Div(r.total_watts, Cardinality(S))]
                   ELSE table[i]]

RECURSIVE level_power_by_job(_, _, _)
level_power_by_job(c, table, jobs) ==
  IF jobs = <<>> THEN table
  ELSE level_power_by_job(c, level_job(c, table, Head(jobs)), Tail(jobs))

(***************************************************************************)
(* The change list: lines 1539-1590 and _clear_node_caps.                  *)
(***************************************************************************)
\* the inner loop of lines 1572-1589 for the record rec opened by node i:
\* j counts node_record_count entries from node_ptr + 1.  An entry past
\* the end of the table is read here as one without a power record.
\* line 1572: the entry node_ptr2 points at in round j of the inner loop
\* of the record node i opened (node_ptr2 starts at node_ptr + 1 and moves
\* on by one with every j)
scan_entry(i, j) == i + 1 + j

\* line 1572: the entries the inner loop examines, j = 0 .. count - 1
scan_entries(table, i) ==
  { scan_entry(i, j) : j \in 0 .. Cardinality(DOMAIN table) - 1 }

RECURSIVE same_change_loop(_, _, _, _)
same_change_loop(table, rec, i, j) ==
  LET n  == Cardinality(DOMAIN table)
      i2 == scan_entry(i, j)
  IN  IF j >= n THEN [table |-> table, rec |-> rec]
      ELSE IF i2 > n \/ table[i2].power = NULL_POWER
      THEN same_change_loop(table, rec, i, j + 1)
      ELSE LET p2 == table[i2].power
           IN  IF p2.cap_watts = p2.new_cap_watts
               THEN same_change_loop(table, rec, i, j + 1)
               ELSE IF U32Lt(p2.new_cap_watts, p2.cap_watts)
                       /\ rec.increase_power
               THEN same_change_loop(table, rec, i, j + 1)
               ELSE same_change_loop(
                      [table EXCEPT ![i2].power.cap_watts =
                                       p2.new_cap_watts],
                      [rec EXCEPT !.nodes = Append(@, i2)],
                      i, j + 1)

\* the loop of lines 1541-1590 from node i on; recs is node_power_list
RECURSIVE build_loop(_, _, _)
build_loop(table, recs, i) ==
  IF i > Cardinality(DOMAIN table) THEN [table |-> table, recs |-> recs]
  ELSE LET power == table[i].power
       IN  IF power = NULL_POWER \/ power.cap_watts = power.new_cap_watts
           THEN build_loop(table, recs, i + 1)
           ELSE LET rec == [alloc_watts    |-> power.new_cap_watts,
                            increase_power |->
                              U32Lt(power.cap_watts, power.new_cap_watts),
                            nodes          |-> <<i>>]
                    r   == same_change_loop(table, rec, i, 0)
                IN  build_loop(r.table, Append(recs, r.rec), i + 1)

\* _clear_node_caps without the readiness test of line 1301
clear_node_caps_any_state(table) ==
  LET hs == { i \in DOMAIN table :
                /\ table[i].power /= NULL_POWER
                /\ table[i].power.cap_watts /= 0 }
  IN  IF hs = {} THEN NullList
      ELSE [null |-> FALSE,
            recs |-> << [alloc_watts |-> 0, increase_power |-> FALSE,
                         nodes |-> SortedSeq(hs)] >>]

\* _clear_node_caps, lines 1283-1327
clear_node_caps(table) ==
  LET hs == { i \in DOMAIN table :
                /\ table[i].power /= NULL_POWER
                /\ table[i].power.cap_watts /= 0
                /\ table[i].power.state = 1 }
  IN  IF hs = {} THEN NullList
      ELSE [null |-> FALSE,
            recs |-> << [alloc_watts |-> 0, increase_power |-> FALSE,
                         nodes |-> SortedSeq(hs)] >>]

\* ClearNodeCaps without the unlock of line 1265
ClearNodeCaps_keep_locks ==
  /\ pc = "balance"
  /\ conf.cap_watts = 0
  /\ node_power_list' = clear_node_caps(node_record_table)
  /\ pc' = "set_caps"
  /\ hw_entry' = hw_cap
  /\ UNCHANGED <<conf, now, node_record_table, job_list, hw_cap, cmd_resp,
                 alloc, iter, capmc_log, life, rest>>

(***************************************************************************)
(* The balancing pass of _power_agent from line 1254 on, step by step.     *)
(***************************************************************************)
\* lines 1261-1262, and the unlock of line 1265
ClearNodeCaps ==
  /\ pc = "balance"
  /\ conf.cap_watts = 0
  /\ node_power_list' = clear_node_caps(node_record_table)
  /\ slurmctld_lock' = no_locks
  /\ pc' = "set_caps"
  /\ hw_entry' = hw_cap
  /\ UNCHANGED <<conf, now, node_record_table, job_list, hw_cap, cmd_resp,
                 alloc, iter, capmc_log, life,
                 full_nid_string, hist, script_argv>>

\* lines 1263-1264 and 1408-1463
PhaseA ==
  /\ pc = "balance"
  /\ conf.cap_watts /= 0
  /\ LET r == lower_loop(conf, node_record_table, NoAlloc, 1)
     IN  /\ node_record_table' = r.table
         /\ alloc' = r.al
  /\ pc' = "phaseB"
  /\ UNCHANGED <<conf, now, job_list, hw_cap, cmd_resp, node_power_list,
                 iter, capmc_log, hw_entry, life, rest>>

\* lines 1465-1488.  The division of line 1476 by a zero count is undefined:
\* the build either traps (the worker dies) or yields a quotient of 0.
PhaseB ==
  /\ pc = "phaseB"
  /\ LET al == avail_set(conf, alloc)
         d  == U32Add(al.node_power_lower_cnt, al.node_power_same_cnt)
     IN  IF ~claw_needed(conf, al)
         THEN /\ alloc' = al
              /\ pc' = "phaseC"
              /\ UNCHANGED node_record_table
         ELSE \E div0 \in {"trap", "zero"} :
                IF d = 0 /\ div0 = "trap"
                THEN /\ pc' = "fault"
                     /\ alloc' = al
                     /\ UNCHANGED node_record_table
                ELSE LET red1 == IF d = 0 THEN 0
                                 ELSE U32Div(claw_excess(conf, al), d)
                         r    == clawback(conf, node_record_table, al, red1)
                     IN  /\ node_record_table' = r.table
                         /\ alloc' = r.al
                         /\ pc' = "phaseC"
  /\ UNCHANGED <<conf, now, job_list, hw_cap, cmd_resp, node_power_list,
                 iter, capmc_log, hw_entry, life, rest>>

\* lines 1494-1534
PhaseC ==
  /\ pc = "phaseC"
  /\ LET r == distribute(conf, node_record_table, alloc,
                         now - conf.recent_job)
     IN  /\ node_record_table' = r.table
         /\ alloc' = r.al
  /\ pc' = "phaseD"
  /\ UNCHANGED <<conf, now, job_list, hw_cap, cmd_resp, node_power_list,
                 iter, capmc_log, hw_entry, life, rest>>

\* lines 1536-1537
PhaseD ==
  /\ pc = "phaseD"
  /\ node_record_table' =
       IF conf.job_level /= 0
       THEN level_power_by_job(conf, node_record_table, job_list)
       ELSE node_record_table
  /\ pc' = "phaseE"
  /\ UNCHANGED <<conf, now, job_list, hw_cap, cmd_resp, alloc,
                 node_power_list, iter, capmc_log, hw_entry, life, rest>>

\* lines 1539-1616.  Two reads here are undefined: the inner loop of line
\* 1572 runs node_record_count entries on from node_ptr + 1, past the end of
\* the table, and the loop of line 1594 walks part_list taking its
\* partition records for change records.  The build either faults or finds
\* nothing there (a NULL power pointer, an empty part_list); the node lists
\* are then left uncompressed.
PhaseE ==
  /\ pc = "phaseE"
  /\ \E ub \in {"fault", "benign"} :
       IF ub = "fault"
       THEN /\ pc' = "fault"
            /\ UNCHANGED <<node_record_table, node_power_list, hw_entry,
                           slurmctld_lock>>
       ELSE LET r == build_loop(node_record_table, <<>>, 1)
            IN  /\ node_record_table' = r.table
                /\ node_power_list' = [null |-> FALSE, recs |-> r.recs]
                /\ hw_entry' = hw_cap
                /\ slurmctld_lock' = no_locks
                /\ pc' = "set_caps"
  /\ UNCHANGED <<conf, now, job_list, hw_cap, cmd_resp, alloc, iter,
                 capmc_log, life, full_nid_string, hist, script_argv>>

(***************************************************************************)
(* The applier: _set_power_caps, lines 1619-1693.                          *)
(***************************************************************************)
\* the two passes with their tests exchanged: increases first
in_pass_swapped(rec, pass) ==
  IF pass = 1 THEN rec.increase_power ELSE ~rec.increase_power

\* the records pass 1 (decrease) or pass 2 (increase) dispatches
in_pass(rec, pass) ==
  IF pass = 1 THEN ~rec.increase_power ELSE rec.increase_power

\* list_next of lines 1642-1644 / 1670-1672: the position of the next record
\* of the pass after position pos, or 0 when the list is exhausted
next_in_pass(recs, pass, pos) ==
  LET later == { k \in DOMAIN recs : k > pos /\ in_pass(recs[k], pass) }
  IN  IF later = {} THEN 0 ELSE CHOOSE k \in later : \A m \in later : k <= m

\* the pass and position of the next invocation, pos = 0 when none is left
next_invocation(recs, it) ==
  LET p1 == IF it.pass <= 1 THEN next_in_pass(recs, 1, it.pos) ELSE 0
  IN  IF it.pass <= 1 /\ p1 /= 0 THEN [pass |-> 1, pos |-> p1]
      ELSE [pass |-> 2,
            pos  |-> next_in_pass(recs, 2,
                                  IF it.pass = 2 THEN it.pos ELSE 0)]

\* capmc set_power_cap --nids nodes --node watts --accel 0: with status 0
\* the nodes named hold the cap, otherwise nothing changed
set_power_cap(hw, rec, status) ==
  IF status /= 0 THEN hw
  ELSE [i \in DOMAIN hw |->
          IF \E k \in DOMAIN rec.nodes : rec.nodes[k] = i
          THEN rec.alloc_watts ELSE hw[i]]

\* one power_run_script call of lines 1645-1665 or 1673-1690
SetPowerCap ==
  /\ pc = "set_caps"
  /\ ~node_power_list.null
  /\ LET nx == next_invocation(node_power_list.recs, iter)
     IN  /\ nx.pos /= 0
         /\ \E status \in {0, 1} :
              LET rec == node_power_list.recs[nx.pos]
              IN  /\ capmc_log' = Append(capmc_log,
                        [nodes |-> rec.nodes, watts |-> rec.alloc_watts,
                         increase_power |-> rec.increase_power,
                         status |-> status])
                  /\ hw_cap' = set_power_cap(hw_cap, rec, status)
                  /\ cmd_resp' = [status |-> status, body |-> "json",
                                  ents |-> <<>>]
                  /\ iter' = nx
                  /\ pc' = IF status /= 0 /\ nx.pass = 1
                           THEN "tick_end" ELSE "set_caps"
  /\ UNCHANGED <<conf, now, node_record_table, job_list, alloc,
                 node_power_list, hw_entry, life, rest>>

\* lines 1627-1628 and 1692: nothing (left) to dispatch
SetPowerCapsReturn ==
  /\ pc = "set_caps"
  /\ \/ node_power_list.null
     \/ next_invocation(node_power_list.recs, iter).pos = 0
  /\ pc' = "tick_end"
  /\ UNCHANGED <<conf, now, node_record_table, job_list, hw_cap, cmd_resp,
                 alloc, node_power_list, iter, capmc_log, hw_entry, life,
                 rest>>

(***************************************************************************)
(* The balancing pass on the node tables a tick can find.                  *)
(***************************************************************************)
PassNodes == 3

\* min_watts and max_watts as _get_capabilities stored them: two capability
\* groups, the odd and the even nids
GroupMin(i) == IF i % 2 = 1 THEN 100 ELSE 200
GroupMax(i) == IF i % 2 = 1 THEN 400 ELSE 300

\* the caps _get_caps can have read for node i (0: none installed)
GroupCaps(i) == IF i % 2 = 1 THEN {100, 200, 300} ELSE {200, 300}

\* the power record of node i with the given readiness, installed cap,
\* usage estimate and job start time
PassPower(i, state, cap, cur, njt) ==
  [ZeroPower EXCEPT !.min_watts = GroupMin(i), !.max_watts = GroupMax(i),
                    !.state = state, !.cap_watts = cap,
                    !.current_watts = cur, !.new_job_time = njt]

\* What the readers of the tick can leave in node i: no record; not ready;
\* ready without a cap or without an estimate; ready and far below, within
\* or above the threshold band of its cap, the job on it old or recent.
PassPowers(i) ==
  {NULL_POWER}
  \cup { PassPower(i, 0, c, 0, 0) : c \in GroupCaps(i) \cup {0} }
  \cup { PassPower(i, 1, c, 0, 0) : c \in GroupCaps(i) \cup {0} }
  \cup { PassPower(i, 1, c, 150, 0) : c \in GroupCaps(i) }
  \cup { PassPower(i, 1, c, c * 92, 0) : c \in GroupCaps(i) }
  \cup { PassPower(i, 1, c, c * 100, t) : c \in GroupCaps(i), t \in {500, 950} }

\* a job_record: IS_JOB_RUNNING, SLURM_POWER_FLAGS_LEVEL, node_bitmap
Job(running, level_flag, nodes) ==
  [running |-> running, level_flag |-> level_flag, node_bitmap |-> nodes]

\* PowerParameters strings and job tables of the ticks examined
PassSettings ==
  { [params |-> <<>>, jobs |-> <<>>],
    [params |-> [cap_watts |-> 700, level |-> "job_no_level"],
     jobs   |-> << Job(TRUE, TRUE, {1, 2}) >>],
    [params |-> [cap_watts |-> 500],
     jobs   |-> << Job(TRUE, TRUE, {1, 2}), Job(TRUE, FALSE, {2, 3}) >>],
    [params |-> [cap_watts |-> 400, level |-> "job_level"],
     jobs   |-> << Job(TRUE, FALSE, {1, 2}), Job(FALSE, TRUE, {1, 3}) >>],
    [params |-> [cap_watts |-> 700, level |-> "job_level"],
     jobs   |-> << Job(TRUE, TRUE, {1, 2}), Job(FALSE, TRUE, {1, 3}),
                   Job(TRUE, FALSE, {2, 3}) >>] }

\* the state at line 1254 of a tick: the readers have run, the caps read by
\* _get_caps are the installed ones
InitPass ==
  /\ now = 1000
  /\ \E st \in PassSettings :
       /\ conf = load_config(StaticConf, st.params)
       /\ job_list = st.jobs
       /\ TickingLife(st.params, conf)
  /\ node_record_table \in
       { t \in [1 .. PassNodes -> [power : UNION { PassPowers(i) :
                                                    i \in 1 .. PassNodes }]] :
           \A i \in 1 .. PassNodes : t[i].power \in PassPowers(i) }
  /\ hw_cap = [i \in 1 .. PassNodes |->
                 IF node_record_table[i].power = NULL_POWER THEN 0
                 ELSE node_record_table[i].power.cap_watts]
  /\ pc = "balance"
  /\ slurmctld_lock = read_locks
  /\ full_nid_string = TRUE
  /\ cmd_resp = NoResp
  /\ alloc = NoAlloc
  /\ node_power_list = NullList
  /\ iter = NoIter
  /\ capmc_log = <<>>
  /\ hw_entry = hw_cap

NextPass ==
  \/ ClearNodeCaps
  \/ PhaseA
  \/ PhaseB
  \/ PhaseC
  \/ PhaseD
  \/ PhaseE
  \/ SetPowerCap
  \/ SetPowerCapsReturn

SpecPass == InitPass /\ [][NextPass]_vars

(***************************************************************************)
(* Phase A on caps near the top of the uint32_t range: the products of     *)
(* lines 1435 and 1451 are uint32_t by uint32_t.                           *)
(***************************************************************************)
WideNodes == 2

\* installed caps: an everyday one, the least whose product with 90 passes
\* 2^32, and 2^30
WideCaps == {300, 47721859, 1073741824}

\* usage estimates
WideWatts == {100, 27600, 1000000}

\* PowerParameters strings: the default thresholds (90 and 95), small ones
WideParams ==
  { [cap_watts |-> 500],
    [cap_watts |-> 500, lower_threshold |-> 4, upper_threshold |-> 8] }

\* the state at line 1254 of a tick over ready nodes with such caps
InitWide ==
  /\ now = 1000
  /\ \E params \in WideParams :
       /\ conf = load_config(StaticConf, params)
       /\ TickingLife(params, conf)
  /\ job_list = <<>>
  /\ node_record_table \in
       [1 .. WideNodes ->
          [power : { PassPower(1, 1, c, w, 0) : c \in WideCaps,
                                                w \in WideWatts }]]
  /\ hw_cap = [i \in 1 .. WideNodes |-> node_record_table[i].power.cap_watts]
  /\ pc = "balance"
  /\ slurmctld_lock = read_locks
  /\ full_nid_string = TRUE
  /\ cmd_resp = NoResp
  /\ alloc = NoAlloc
  /\ node_power_list = NullList
  /\ iter = NoIter
  /\ capmc_log = <<>>
  /\ hw_entry = hw_cap

NextWide == PhaseA

SpecWide == InitWide /\ [][NextWide]_vars

(***************************************************************************)
(* One whole tick, lines 1242-1267: the four ingests, the balancing pass    *)
(* and the applier, on the node tables an earlier tick can have left.      *)
(***************************************************************************)
IngestNodes == 2

\* the record node i holds from earlier ticks: none, or one with its
\* capabilities, a cap, a reading and the ready state
IngestPowers(i) ==
  { NULL_POWER,
    [ZeroPower EXCEPT !.min_watts = GroupMin(i), !.max_watts = GroupMax(i),
                      !.cap_watts = 300, !.current_watts = 150,
                      !.joule_counter = 1000000,
                      !.time_usec = U64Norm(43200, 0), !.state = 1] }

\* PowerParameters of the tick: no cap, or a cap to share
IngestParams == { <<>>, [cap_watts |-> 500] }

InitIngest ==
  /\ now = 1000
  /\ \E p \in IngestParams :
       /\ conf = load_config(StaticConf, p)
       /\ TickingLife(p, conf)
  /\ job_list = <<>>
  /\ node_record_table \in
       { t \in [1 .. IngestNodes -> [power : UNION { IngestPowers(i) :
                                                      i \in 1 .. IngestNodes }]] :
           \A i \in 1 .. IngestNodes : t[i].power \in IngestPowers(i) }
  /\ hw_cap \in { h \in [1 .. IngestNodes -> {200, 300}] :
                    \A i \in 1 .. IngestNodes : i % 2 = 0 => h[i] = 200 }
  /\ pc = "caps_run"
  /\ slurmctld_lock = no_locks
  /\ full_nid_string = TRUE
  /\ cmd_resp = NoResp
  /\ alloc = NoAlloc
  /\ node_power_list = NullList
  /\ iter = NoIter
  /\ capmc_log = <<>>
  /\ hw_entry = hw_cap

NextIngest ==
  \/ CapsRun
  \/ CapsIngest
  \/ CapabilitiesRun
  \/ CapabilitiesIngest
  \/ EnergyRun
  \/ EnergyIngest
  \/ ReadyRun
  \/ ReadyIngest
  \/ ClearNodeCaps
  \/ PhaseA
  \/ PhaseB
  \/ PhaseC
  \/ PhaseD
  \/ PhaseE
  \/ SetPowerCap
  \/ SetPowerCapsReturn

SpecIngest == InitIngest /\ [][NextIngest]_vars

(***************************************************************************)
(* Reloading the configuration: power_p_reconfig and the PowerParameters   *)
(* strings an administrator can leave in slurm.conf.                       *)
(***************************************************************************)
\* the keys _load_config validates with "< 1", with the numbers tried after
\* "key=" (as atoi returns them; a uint32_t holds -5 as 4294967291)
ValidatedValues ==
  [ balance_interval |-> {0, 5},
    decrease_rate    |-> {0, 5},
    increase_rate    |-> {0},
    lower_threshold  |-> {0, 5},
    recent_job       |-> {-5},
    upper_threshold  |-> {0} ]

ValidatedKeys == DOMAIN ValidatedValues

\* the strings holding any subset of these keys
ReloadStrings ==
  UNION { { f \in [S -> {0, 5, -5}] : \A k \in S : f[k] \in ValidatedValues[k] } :
          S \in SUBSET ValidatedKeys }

\* the administrator edits PowerParameters in slurm.conf
SetPowerParameters ==
  /\ \E p \in ReloadStrings : power_params' = p
  /\ power_params' /= power_params
  /\ UNCHANGED <<conf, now, node_record_table, job_list, hw_cap, pc, cmd_resp,
                 alloc, node_power_list, iter, capmc_log, hw_entry,
                 stop_power, power_thread, thread_flag_mutex, agents,
                 last_balance_time, last_cap_watts, init_rc, in_daemon,
                 term_lock, signaled, fini_pc, stop_at, rest>>

\* power_p_reconfig, lines 1750-1755
power_p_reconfig ==
  /\ pc /= "fault"
  /\ thread_flag_mutex = "none"
  /\ conf' = load_config(conf, power_params)
  /\ full_nid_string' = FALSE
  /\ script_argv' = released(script_argv)
  /\ UNCHANGED <<now, node_record_table, job_list, hw_cap, pc, cmd_resp,
                 alloc, node_power_list, iter, capmc_log, hw_entry, life,
                 slurmctld_lock, hist>>

\* the plugin loaded, no worker started, any PowerParameters string
InitConfig ==
  /\ conf = StaticConf
  /\ now = 1000
  /\ node_record_table = [i \in 1 .. 1 |-> [power |-> NULL_POWER]]
  /\ job_list = <<>>
  /\ hw_cap = [i \in 1 .. 1 |-> 0]
  /\ pc = "unloaded"
  /\ cmd_resp = NoResp
  /\ alloc = NoAlloc
  /\ node_power_list = NullList
  /\ iter = NoIter
  /\ capmc_log = <<>>
  /\ hw_entry = hw_cap
  /\ \E p \in ReloadStrings : LoadedLife(p)

NextConfig == SetPowerParameters \/ power_p_reconfig

SpecConfig == InitConfig /\ [][NextConfig]_vars

(***************************************************************************)
(* The plugin's life: init, fini, power_p_reconfig and the worker's loop.  *)
(* pc is the position of the worker created last; a worker that faults     *)
(* (pc = "fault") takes the whole process down, so nothing runs after it.   *)
(***************************************************************************)
MaxSpawn == 2
MaxNow == 1001

\* a pthread_t that names no thread
InvalidThread == -1

\* the worker created last
Agent == Len(agents)

\* a step of the system clock
ClockTick ==
  /\ pc /= "fault"
  /\ now < MaxNow
  /\ now' = now + 1
  /\ UNCHANGED <<conf, node_record_table, job_list, hw_cap, pc, cmd_resp,
                 alloc, node_power_list, iter, capmc_log, hw_entry, life,
                 rest>>

\* init() without the test of lines 1716-1720
init_no_test ==
  /\ pc /= "fault"
  /\ thread_flag_mutex = "none"
  /\ in_daemon
  /\ Len(agents) < MaxSpawn
  /\ conf' = load_config(conf, power_params)
  /\ full_nid_string' = FALSE
  /\ script_argv' = released(script_argv)
  /\ agents' = Append(agents, "running")
  /\ power_thread' = Len(agents) + 1
  /\ pc' = "start"
  /\ init_rc' = "SLURM_SUCCESS"
  /\ UNCHANGED <<now, node_record_table, job_list, hw_cap, cmd_resp, alloc,
                 node_power_list, iter, capmc_log, hw_entry, power_params,
                 stop_power, thread_flag_mutex, last_balance_time,
                 last_cap_watts, in_daemon, term_lock, signaled, fini_pc,
                 stop_at, slurmctld_lock, hist>>

\* init(), lines 1708-1731, as one step under thread_flag_mutex.  When
\* pthread_create fails the error is logged and the content of power_thread
\* is undefined: still 0, or a value that names no thread.
init ==
  /\ pc /= "fault"
  /\ thread_flag_mutex = "none"
  /\ IF ~in_daemon
     THEN /\ init_rc' = "SLURM_SUCCESS"
          /\ UNCHANGED <<conf, agents, power_thread, pc, full_nid_string,
                         script_argv>>
     ELSE IF power_thread /= 0
     THEN /\ init_rc' = "SLURM_ERROR"
          /\ UNCHANGED <<conf, agents, power_thread, pc, full_nid_string,
                         script_argv>>
     ELSE /\ conf' = load_config(conf, power_params)
          /\ full_nid_string' = FALSE
          /\ script_argv' = released(script_argv)
          /\ init_rc' = "SLURM_SUCCESS"
          /\ \E created \in BOOLEAN :
               IF created /\ Len(agents) < MaxSpawn
               THEN /\ agents' = Append(agents, "running")
                    /\ power_thread' = Len(agents) + 1
                    /\ pc' = "start"
               ELSE /\ power_thread' \in {0, InvalidThread}
                    /\ UNCHANGED <<agents, pc>>
  /\ UNCHANGED <<now, node_record_table, job_list, hw_cap, cmd_resp, alloc,
                 node_power_list, iter, capmc_log, hw_entry, power_params,
                 stop_power, thread_flag_mutex, last_balance_time,
                 last_cap_watts, in_daemon, term_lock, signaled, fini_pc,
                 stop_at, slurmctld_lock, hist>>

\* fini(), lines 1738-1739 (and 1746 when there is no thread to stop)
fini ==
  /\ pc /= "fault"
  /\ thread_flag_mutex = "none"
  /\ IF power_thread = 0
     THEN UNCHANGED <<thread_flag_mutex, fini_pc>>
     ELSE /\ thread_flag_mutex' = "fini"
          /\ fini_pc' = "stop"
  /\ UNCHANGED <<conf, now, node_record_table, job_list, hw_cap, pc,
                 cmd_resp, alloc, node_power_list, iter, capmc_log, hw_entry,
                 power_params, stop_power, power_thread, agents,
                 last_balance_time, last_cap_watts, init_rc, in_daemon,
                 term_lock, signaled, stop_at, rest>>

\* _stop_power_agent, line 1698
StopLock ==
  /\ pc /= "fault"
  /\ fini_pc = "stop"
  /\ term_lock = "none"
  /\ term_lock' = "fini"
  /\ fini_pc' = "stop_locked"
  /\ UNCHANGED <<conf, now, node_record_table, job_list, hw_cap, pc,
                 cmd_resp, alloc, node_power_list, iter, capmc_log, hw_entry,
                 power_params, stop_power, power_thread, thread_flag_mutex,
                 agents, last_balance_time, last_cap_watts, init_rc,
                 in_daemon, signaled, stop_at, rest>>

\* _stop_power_agent without the assignment of line 1699
stop_power_agent_no_flag ==
  /\ pc /= "fault"
  /\ fini_pc = "stop_locked"
  /\ signaled' = (pc = "waiting")
  /\ term_lock' = "none"
  /\ fini_pc' = "join"
  /\ stop_at' = pc
  /\ UNCHANGED <<conf, now, node_record_table, job_list, hw_cap, pc,
                 cmd_resp, alloc, node_power_list, iter, capmc_log, hw_entry,
                 power_params, stop_power, power_thread, thread_flag_mutex,
                 agents, last_balance_time, last_cap_watts, init_rc,
                 in_daemon, rest>>

\* _stop_power_agent, lines 1699-1701: the signal reaches the worker if it
\* is waiting on term_cond and is lost otherwise
stop_power_agent ==
  /\ pc /= "fault"
  /\ fini_pc = "stop_locked"
  /\ stop_power' = TRUE
  /\ signaled' = (pc = "waiting")
  /\ term_lock' = "none"
  /\ fini_pc' = "join"
  /\ stop_at' = pc
  /\ UNCHANGED <<conf, now, node_record_table, job_list, hw_cap, pc,
                 cmd_resp, alloc, node_power_list, iter, capmc_log, hw_entry,
                 power_params, power_thread, thread_flag_mutex, agents,
                 last_balance_time, last_cap_watts, init_rc, in_daemon, rest>>

\* fini(), lines 1741-1746: pthread_join returns once the thread has
\* returned.  Joining a value that names no thread is undefined: the call
\* fails with ESRCH or the process faults.
pthread_join ==
  /\ pc /= "fault"
  /\ fini_pc = "join"
  /\ IF power_thread \in DOMAIN agents
     THEN /\ agents[power_thread] = "exited"
          /\ agents' = [agents EXCEPT ![power_thread] = "joined"]
          /\ pc' = pc
     ELSE /\ \E ub \in {"ESRCH", "fault"} :
               pc' = IF ub = "fault" THEN "fault" ELSE pc
          /\ UNCHANGED agents
  /\ power_thread' = 0
  /\ full_nid_string' = FALSE
  /\ script_argv' = released(script_argv)
  /\ thread_flag_mutex' = "none"
  /\ fini_pc' = "idle"
  /\ UNCHANGED <<conf, now, node_record_table, job_list, hw_cap, cmd_resp,
                 alloc, node_power_list, iter, capmc_log, hw_entry,
                 power_params, stop_power, last_balance_time, last_cap_watts,
                 init_rc, in_daemon, term_lock, signaled, stop_at,
                 slurmctld_lock, hist>>

\* _power_agent, line 1227
AgentStart ==
  /\ pc = "start"
  /\ last_balance_time' = now
  /\ hist' = [hist EXCEPT !.since = now]
  /\ pc' = "loop"
  /\ UNCHANGED <<conf, now, node_record_table, job_list, hw_cap, cmd_resp,
                 alloc, node_power_list, iter, capmc_log, hw_entry,
                 power_params, stop_power, power_thread, thread_flag_mutex,
                 agents, last_cap_watts, init_rc, in_daemon, term_lock,
                 signaled, fini_pc, stop_at, slurmctld_lock,
                 full_nid_string, script_argv>>

\* the worker's thread, once _power_agent has returned
Exited == [agents EXCEPT ![Agent] = "exited"]

\* line 1228.  The read is not ordered with the write of line 1699; a read
\* that misses the write is the behaviour in which this step comes first.
LoopTest ==
  /\ pc = "loop"
  /\ IF stop_power
     THEN /\ pc' = "exit"
          /\ agents' = Exited
     ELSE /\ pc' = "sleep"
          /\ UNCHANGED agents
  /\ UNCHANGED <<conf, now, node_record_table, job_list, hw_cap, cmd_resp,
                 alloc, node_power_list, iter, capmc_log, hw_entry,
                 power_params, stop_power, power_thread, thread_flag_mutex,
                 last_balance_time, last_cap_watts, init_rc, in_daemon,
                 term_lock, signaled, fini_pc, stop_at, rest>>

\* _my_sleep, lines 1200-1207: gettimeofday fails and the worker sleeps a
\* second without looking at term_cond, or it takes term_lock
MySleepLock ==
  /\ pc = "sleep"
  /\ \E failed \in BOOLEAN :
       IF failed
       THEN /\ pc' = "woke"
            /\ UNCHANGED term_lock
       ELSE /\ term_lock = "none"
            /\ term_lock' = "agent"
            /\ pc' = "locked"
  /\ UNCHANGED <<conf, now, node_record_table, job_list, hw_cap, cmd_resp,
                 alloc, node_power_list, iter, capmc_log, hw_entry,
                 power_params, stop_power, power_thread, thread_flag_mutex,
                 agents, last_balance_time, last_cap_watts, init_rc,
                 in_daemon, signaled, fini_pc, stop_at, rest>>

\* _my_sleep, lines 1208-1210: with a stop pending the worker does not
\* wait; otherwise pthread_cond_timedwait releases term_lock and waits
MySleepWait ==
  /\ pc = "locked"
  /\ term_lock' = "none"
  /\ IF stop_power
     THEN /\ pc' = "woke"
          /\ UNCHANGED signaled
     ELSE /\ pc' = "waiting"
          /\ signaled' = FALSE
  /\ UNCHANGED <<conf, now, node_record_table, job_list, hw_cap, cmd_resp,
                 alloc, node_power_list, iter, capmc_log, hw_entry,
                 power_params, stop_power, power_thread, thread_flag_mutex,
                 agents, last_balance_time, last_cap_watts, init_rc,
                 in_daemon, fini_pc, stop_at, rest>>

\* pthread_cond_timedwait returns (signalled, after its second, or
\* spuriously) once it holds term_lock again; line 1210 releases it
Wake ==
  /\ pc = "waiting"
  /\ term_lock = "none"
  /\ signaled' = FALSE
  /\ pc' = "woke"
  /\ UNCHANGED <<conf, now, node_record_table, job_list, hw_cap, cmd_resp,
                 alloc, node_power_list, iter, capmc_log, hw_entry,
                 power_params, stop_power, power_thread, thread_flag_mutex,
                 agents, last_balance_time, last_cap_watts, init_rc,
                 in_daemon, term_lock, fini_pc, stop_at, rest>>

\* CheckStop without the assignment of line 1240
CheckStop_no_record ==
  /\ pc = "woke"
  /\ IF stop_power
     THEN /\ pc' = "exit"
          /\ agents' = Exited
          /\ UNCHANGED <<last_cap_watts, hist>>
     ELSE IF now - last_balance_time < conf.balance_interval
     THEN /\ pc' = "loop"
          /\ UNCHANGED <<agents, last_cap_watts, hist>>
     ELSE IF last_cap_watts = conf.cap_watts /\ conf.cap_watts = 0
     THEN /\ pc' = "loop"
          /\ UNCHANGED <<agents, last_cap_watts, hist>>
     ELSE /\ hist' = [hist EXCEPT !.ticks = @ + 1,
                                  !.cap_watts = conf.cap_watts]
          /\ pc' = IF last_cap_read = 0 THEN "caps_run"
                   ELSE IF now - last_cap_read > 600
                        THEN "capabilities_run" ELSE "energy_run"
          /\ UNCHANGED <<agents, last_cap_watts>>
  /\ UNCHANGED <<conf, now, node_record_table, job_list, hw_cap, cmd_resp,
                 alloc, node_power_list, iter, capmc_log, hw_entry,
                 power_params, stop_power, power_thread, thread_flag_mutex,
                 last_balance_time, init_rc, in_daemon, term_lock, signaled,
                 fini_pc, stop_at, slurmctld_lock, full_nid_string,
                 script_argv>>

\* lines 1230-1242: leave on a stop, go round when the tick is not due or
\* there is no cap to clear, or begin the tick
CheckStop ==
  /\ pc = "woke"
  /\ IF stop_power
     THEN /\ pc' = "exit"
          /\ agents' = Exited
          /\ UNCHANGED <<last_cap_watts, hist>>
     ELSE IF now - last_balance_time < conf.balance_interval
     THEN /\ pc' = "loop"
          /\ UNCHANGED <<agents, last_cap_watts, hist>>
     ELSE IF last_cap_watts = conf.cap_watts /\ conf.cap_watts = 0
     THEN /\ pc' = "loop"
          /\ UNCHANGED <<agents, last_cap_watts, hist>>
     ELSE /\ last_cap_watts' = conf.cap_watts
          /\ hist' = [hist EXCEPT !.ticks = @ + 1,
                                  !.cap_watts = conf.cap_watts]
          /\ pc' = IF last_cap_read = 0 THEN "caps_run"
                   ELSE IF now - last_cap_read > 600
                        THEN "capabilities_run" ELSE "energy_run"
          /\ UNCHANGED agents
  /\ UNCHANGED <<conf, now, node_record_table, job_list, hw_cap, cmd_resp,
                 alloc, node_power_list, iter, capmc_log, hw_entry,
                 power_params, stop_power, power_thread, thread_flag_mutex,
                 last_balance_time, init_rc, in_daemon, term_lock, signaled,
                 fini_pc, stop_at, slurmctld_lock, full_nid_string,
                 script_argv>>

\* TickEnd without the assignment of line 1268
TickEnd_no_stamp ==
  /\ pc = "tick_end"
  /\ node_power_list' = NullList
  /\ iter' = NoIter
  /\ alloc' = NoAlloc
  /\ cmd_resp' = NoResp
  /\ hist' = [hist EXCEPT !.since = now]
  /\ pc' = "loop"
  /\ UNCHANGED <<conf, now, node_record_table, job_list, hw_cap, capmc_log,
                 hw_entry, power_params, stop_power, power_thread,
                 thread_flag_mutex, agents, last_balance_time,
                 last_cap_watts, init_rc,
                 in_daemon, term_lock, signaled, fini_pc, stop_at,
                 slurmctld_lock,
                 full_nid_string, script_argv>>

\* lines 1267-1268: the change list is freed, the tick is over
TickEnd ==
  /\ pc = "tick_end"
  /\ node_power_list' = NullList
  /\ iter' = NoIter
  /\ alloc' = NoAlloc
  /\ cmd_resp' = NoResp
  /\ last_balance_time' = now
  /\ hist' = [hist EXCEPT !.since = now]
  /\ pc' = "loop"
  /\ UNCHANGED <<conf, now, node_record_table, job_list, hw_cap, capmc_log,
                 hw_entry, power_params, stop_power, power_thread,
                 thread_flag_mutex, agents, last_cap_watts, init_rc,
                 in_daemon, term_lock, signaled, fini_pc, stop_at,
                 slurmctld_lock,
                 full_nid_string, script_argv>>

\* the steps of the worker
AgentStep ==
  \/ AgentStart
  \/ LoopTest
  \/ MySleepLock
  \/ MySleepWait
  \/ Wake
  \/ CheckStop
  \/ CapsRun
  \/ CapsIngest
  \/ CapabilitiesRun
  \/ CapabilitiesIngest
  \/ EnergyRun
  \/ EnergyIngest
  \/ ReadyRun
  \/ ReadyIngest
  \/ ClearNodeCaps
  \/ PhaseA
  \/ PhaseB
  \/ PhaseC
  \/ PhaseD
  \/ PhaseE
  \/ SetPowerCap
  \/ SetPowerCapsReturn
  \/ TickEnd

\* the steps of a fini() call past its entry
FiniStep == StopLock \/ stop_power_agent \/ pthread_join

\* PowerParameters of the controller: ticks every second, without a cap or
\* with one
AgentParams == { [balance_interval |-> 1],
                 [balance_interval |-> 1, cap_watts |-> 500] }

\* the plugin as loaded into a process: no thread, no power records yet
InitAgent ==
  /\ conf = StaticConf
  /\ now = 1000
  /\ node_record_table = [i \in {1} |-> [power |-> NULL_POWER]]
  /\ job_list = <<>>
  /\ hw_cap = [i \in {1} |-> 200]
  /\ pc = "unloaded"
  /\ cmd_resp = NoResp
  /\ alloc = NoAlloc
  /\ node_power_list = NullList
  /\ iter = NoIter
  /\ capmc_log = <<>>
  /\ hw_entry = hw_cap
  /\ \E p \in AgentParams : LoadedLife(p)

NextAgent ==
  \/ ClockTick
  \/ init
  \/ fini
  \/ power_p_reconfig
  \/ FiniStep
  \/ AgentStep

SpecAgent == InitAgent /\ [][NextAgent]_vars

\* the worker's thread is scheduled and every child returns within its
\* 5-second deadline; a fini() call under way is scheduled too
FairSpecAgent ==
  /\ SpecAgent
  /\ WF_vars(AgentStep)
  /\ WF_vars(FiniStep)

(***************************************************************************)
(* One tick with the worker's slurmctld locks: every ingest is split at    *)
(* its lock_slurmctld and unlock_slurmctld calls, and so is the building   *)
(* of full_nid_string.                                                     *)
(***************************************************************************)
\* _build_full_nid_string, lines 620-623: nothing to do when the string is
\* there, else the node read lock is taken
BuildLock(at, to) ==
  /\ pc = at
  /\ ~full_nid_string
  /\ slurmctld_lock' = read_node_lock
  /\ pc' = to
  /\ UNCHANGED <<conf, now, node_record_table, job_list, hw_cap, cmd_resp,
                 alloc, node_power_list, iter, capmc_log, hw_entry, life,
                 full_nid_string, hist, script_argv>>

\* _build_full_nid_string, lines 624-646: the nids are collected, the lock
\* is released and the string is stored
BuildUnlock(at, to) ==
  /\ pc = at
  /\ slurmctld_lock' = no_locks
  /\ full_nid_string' = TRUE
  /\ pc' = to
  /\ UNCHANGED <<conf, now, node_record_table, job_list, hw_cap, cmd_resp,
                 alloc, node_power_list, iter, capmc_log, hw_entry, life,
                 hist, script_argv>>

\* lines 391, 706, 927, 1063: the child has returned output that parsed, and
\* the ingest takes the node write lock
LockNodes(at, to) ==
  /\ pc = at
  /\ ~ChildFailed(cmd_resp)
  /\ slurmctld_lock' = write_node_lock
  /\ pc' = to
  /\ UNCHANGED <<conf, now, node_record_table, job_list, hw_cap, cmd_resp,
                 alloc, node_power_list, iter, capmc_log, hw_entry, life,
                 full_nid_string, hist, script_argv>>

\* lines 392-427, 707-723, 928-949, 1064-1119: the entries are copied into
\* the power records and the lock is released
CopyUnlock(at, table, to) ==
  /\ pc = at
  /\ node_record_table' = table
  /\ slurmctld_lock' = no_locks
  /\ pc' = to
  /\ UNCHANGED <<conf, now, job_list, hw_cap, cmd_resp, alloc,
                 node_power_list, iter, capmc_log, hw_entry, life,
                 full_nid_string, hist, script_argv>>

CapsBuildLock == pc = "caps_run" /\ BuildLock("caps_run", "caps_build")

CapsBuildUnlock ==
  pc = "caps_build" /\ BuildUnlock("caps_build", "caps_run")

\* lines 663-675, with the string built
CapsChild == full_nid_string /\ CapsRun

\* lines 677-694: the early returns of _get_caps
CapsFailed == ChildFailed(cmd_resp) /\ CapsIngest

CapsLock == pc = "caps_resp" /\ LockNodes("caps_resp", "caps_copy")

CapsCopy ==
  /\ pc = "caps_copy"
  /\ CopyUnlock("caps_copy", get_caps(node_record_table, cmd_resp),
                IF now - last_cap_read > 600 THEN "capabilities_run"
                ELSE "energy_run")

\* lines 362-379: the early returns of _get_capabilities
CapabilitiesFailed == ChildFailed(cmd_resp) /\ CapabilitiesIngest

CapabilitiesLock ==
  /\ pc = "capabilities_resp"
  /\ LockNodes("capabilities_resp", "capabilities_copy")

CapabilitiesCopy ==
  /\ pc = "capabilities_copy"
  /\ CopyUnlock("capabilities_copy",
                get_capabilities(node_record_table, cmd_resp), "energy_run")

EnergyBuildLock ==
  pc = "energy_run" /\ BuildLock("energy_run", "energy_build")

EnergyBuildUnlock ==
  pc = "energy_build" /\ BuildUnlock("energy_build", "energy_run")

\* lines 1018-1030, with the string built
EnergyChild == full_nid_string /\ EnergyRun

\* lines 1032-1050: the early returns of _get_node_energy_counter
EnergyFailed == ChildFailed(cmd_resp) /\ EnergyIngest

EnergyLock == pc = "energy_resp" /\ LockNodes("energy_resp", "energy_copy")

EnergyCopy ==
  /\ pc = "energy_copy"
  /\ CopyUnlock("energy_copy",
                get_node_energy_counter(node_record_table, cmd_resp),
                "ready_run")

\* lines 898-915: the early returns of _get_nodes_ready, then line 1254
ReadyFailed == ChildFailed(cmd_resp) /\ ReadyIngest

ReadyLock == pc = "ready_resp" /\ LockNodes("ready_resp", "ready_copy")

ReadyCopy ==
  /\ pc = "ready_copy"
  /\ CopyUnlock("ready_copy", get_nodes_ready(node_record_table, cmd_resp),
                "read_lock")

\* line 1254: the worker takes the job and node read locks for the allocator
LockReads ==
  /\ pc = "read_lock"
  /\ slurmctld_lock' = read_locks
  /\ pc' = "balance"
  /\ UNCHANGED <<conf, now, node_record_table, job_list, hw_cap, cmd_resp,
                 alloc, node_power_list, iter, capmc_log, hw_entry, life,
                 full_nid_string, hist, script_argv>>

\* the worker at the start of a tick, with or without full_nid_string (a
\* reconfiguration frees it, and may do so during the tick), the node with
\* or without a power record
InitLocks ==
  /\ now = 1000
  /\ \E p \in IngestParams :
       /\ conf = load_config(StaticConf, p)
       /\ TickingLife(p, conf)
  /\ job_list = <<>>
  /\ node_record_table \in [{1} -> [power : IngestPowers(1)]]
  /\ hw_cap \in [{1} -> {200, 300}]
  /\ pc = "caps_run"
  /\ slurmctld_lock = no_locks
  /\ full_nid_string \in BOOLEAN
  /\ cmd_resp = NoResp
  /\ alloc = NoAlloc
  /\ node_power_list = NullList
  /\ iter = NoIter
  /\ capmc_log = <<>>
  /\ hw_entry = hw_cap

NextLocks ==
  \/ power_p_reconfig
  \/ CapsBuildLock
  \/ CapsBuildUnlock
  \/ CapsChild
  \/ CapsFailed
  \/ CapsLock
  \/ CapsCopy
  \/ CapabilitiesRun
  \/ CapabilitiesFailed
  \/ CapabilitiesLock
  \/ CapabilitiesCopy
  \/ EnergyBuildLock
  \/ EnergyBuildUnlock
  \/ EnergyChild
  \/ EnergyFailed
  \/ EnergyLock
  \/ EnergyCopy
  \/ ReadyRun
  \/ ReadyFailed
  \/ ReadyLock
  \/ ReadyCopy
  \/ LockReads
  \/ ClearNodeCaps
  \/ PhaseA
  \/ PhaseB
  \/ PhaseC
  \/ PhaseD
  \/ PhaseE
  \/ SetPowerCap
  \/ SetPowerCapsReturn

SpecLocks == InitLocks /\ [][NextLocks]_vars

(***************************************************************************)
(* The first ingests of a tick with a reconfiguration running beside the   *)
(* worker: _get_caps and _get_node_energy_counter are split at the reads   *)
(* of full_nid_string, at the filling of script_argv and at the call of    *)
(* power_run_script.  power_p_reconfig holds thread_flag_mutex only, which *)
(* the worker never takes.                                                 *)
(***************************************************************************)
\* _build_full_nid_string, lines 620-621: the string is cached
StringCached(at, to) ==
  /\ pc = at
  /\ full_nid_string
  /\ pc' = to
  /\ UNCHANGED <<conf, now, node_record_table, job_list, hw_cap, cmd_resp,
                 alloc, node_power_list, iter, capmc_log, hw_entry, life,
                 rest>>

\* lines 663-664 and 1018-1019: the ingest returns when there is no string
StringTest(at, to, back) ==
  /\ pc = at
  /\ pc' = IF full_nid_string THEN to ELSE back
  /\ UNCHANGED <<conf, now, node_record_table, job_list, hw_cap, cmd_resp,
                 alloc, node_power_list, iter, capmc_log, hw_entry, life,
                 rest>>

\* lines 666-670 and 1021-1025: script_argv[0] = capmc_path,
\* script_argv[3] = full_nid_string
FillArgv(at, to) ==
  /\ pc = at
  /\ script_argv' = [capmc_path      |-> "valid",
                     full_nid_string |-> IF full_nid_string THEN "valid"
                                         ELSE "NULL"]
  /\ pc' = to
  /\ UNCHANGED <<conf, now, node_record_table, job_list, hw_cap, cmd_resp,
                 alloc, node_power_list, iter, capmc_log, hw_entry, life,
                 slurmctld_lock, full_nid_string, hist>>

\* lines 673-674 and 1028-1029: power_run_script with script_argv, handing
\* back one of resps.  Reading a string that has been freed is undefined:
\* the call faults, or the child is run on whatever the memory holds.
RunScript(at, resps, to) ==
  /\ pc = at
  /\ \E ub \in {"fault", "runs"} :
       IF ub = "fault" /\ \E k \in DOMAIN script_argv : script_argv[k] = "freed"
       THEN /\ pc' = "fault"
            /\ UNCHANGED cmd_resp
       ELSE /\ \E r \in resps : cmd_resp' = r
            /\ pc' = to
  /\ script_argv' = NoArgv
  /\ UNCHANGED <<conf, now, node_record_table, job_list, hw_cap, alloc,
                 node_power_list, iter, capmc_log, hw_entry, life,
                 slurmctld_lock, full_nid_string, hist>>

\* what the children of CapsRun and EnergyRun can hand back
CapsResps ==
  FailedResps \cup
  { [status |-> 0, body |-> "json", ents |-> ents] : ents \in CapsBodies }

EnergyResps ==
  { [status |-> st, body |-> b, ents |-> <<>>] :
      st \in {0, 1}, b \in {"empty", "garbage"} } \cup
  { [status |-> 0, body |-> "json", ents |-> ents] :
      ents \in EnergyBodies(node_record_count) }

CapsCached == pc = "caps_run" /\ StringCached("caps_run", "caps_test")

CapsBuilt == pc = "caps_build" /\ BuildUnlock("caps_build", "caps_test")

CapsTest ==
  /\ pc = "caps_test"
  /\ StringTest("caps_test", "caps_argv",
                IF now - last_cap_read > 600 THEN "capabilities_run"
                ELSE "energy_run")

CapsArgv == pc = "caps_argv" /\ FillArgv("caps_argv", "caps_child")

CapsCall == pc = "caps_child" /\ RunScript("caps_child", CapsResps, "caps_resp")

EnergyCached == pc = "energy_run" /\ StringCached("energy_run", "energy_test")

EnergyBuilt == pc = "energy_build" /\ BuildUnlock("energy_build", "energy_test")

EnergyTest ==
  pc = "energy_test" /\ StringTest("energy_test", "energy_argv", "ready_run")

EnergyArgv == pc = "energy_argv" /\ FillArgv("energy_argv", "energy_child")

EnergyCall ==
  /\ pc = "energy_child"
  /\ RunScript("energy_child", EnergyResps, "energy_resp")

\* the worker at the start of a tick, the string cached or not
InitReload ==
  /\ now = 1000
  /\ \E p \in IngestParams :
       /\ conf = load_config(StaticConf, p)
       /\ TickingLife(p, conf)
  /\ job_list = <<>>
  /\ node_record_table \in [{1} -> [power : IngestPowers(1)]]
  /\ hw_cap \in [{1} -> {200, 300}]
  /\ pc = "caps_run"
  /\ slurmctld_lock = no_locks
  /\ full_nid_string \in BOOLEAN
  /\ cmd_resp = NoResp
  /\ alloc = NoAlloc
  /\ node_power_list = NullList
  /\ iter = NoIter
  /\ capmc_log = <<>>
  /\ hw_entry = hw_cap

NextReload ==
  \/ power_p_reconfig
  \/ CapsCached
  \/ CapsBuildLock
  \/ CapsBuilt
  \/ CapsTest
  \/ CapsArgv
  \/ CapsCall
  \/ CapsIngest
  \/ CapabilitiesRun
  \/ CapabilitiesIngest
  \/ EnergyCached
  \/ EnergyBuildLock
  \/ EnergyBuilt
  \/ EnergyTest
  \/ EnergyArgv
  \/ EnergyCall
  \/ EnergyIngest

SpecReload == InitReload /\ [][NextReload]_vars

(***************************************************************************)
(* The worker over several ticks: the clock runs for TickSpan seconds from *)
(* the creation of the worker, and the administrator may change cap_watts. *)
(***************************************************************************)
TickSpan == 2

\* the administrator sets or removes cap_watts in PowerParameters
SetCapWatts ==
  /\ \E p \in AgentParams : power_params' = p
  /\ power_params' /= power_params
  /\ UNCHANGED <<conf, now, node_record_table, job_list, hw_cap, pc, cmd_resp,
                 alloc, node_power_list, iter, capmc_log, hw_entry,
                 stop_power, power_thread, thread_flag_mutex, agents,
                 last_balance_time, last_cap_watts, init_rc, in_daemon,
                 term_lock, signaled, fini_pc, stop_at, rest>>

\* init() has just returned in slurmctld, having loaded the configuration
\* and created the worker, which has not run yet
InitTicks ==
  /\ now = MaxNow - TickSpan
  /\ \E p \in AgentParams :
       /\ power_params = p
       /\ conf = load_config(StaticConf, p)
  /\ node_record_table = [i \in {1} |-> [power |-> NULL_POWER]]
  /\ job_list = <<>>
  /\ hw_cap = [i \in {1} |-> 200]
  /\ pc = "start"
  /\ cmd_resp = NoResp
  /\ alloc = NoAlloc
  /\ node_power_list = NullList
  /\ iter = NoIter
  /\ capmc_log = <<>>
  /\ hw_entry = hw_cap
  /\ stop_power = FALSE
  /\ power_thread = 1
  /\ thread_flag_mutex = "none"
  /\ agents = <<"running">>
  /\ last_balance_time = 0
  /\ last_cap_watts = NO_VAL
  /\ init_rc = "SLURM_SUCCESS"
  /\ in_daemon = TRUE
  /\ term_lock = "none"
  /\ signaled = FALSE
  /\ fini_pc = "idle"
  /\ stop_at = "none"
  /\ slurmctld_lock = no_locks
  /\ full_nid_string = FALSE
  /\ hist = NoHist
  /\ script_argv = NoArgv

NextTicks ==
  \/ ClockTick
  \/ SetCapWatts
  \/ power_p_reconfig
  \/ AgentStep

SpecTicks == InitTicks /\ [][NextTicks]_vars

(***************************************************************************)
(* Claims about the balancing pass (checked under SpecPass).               *)
(***************************************************************************)
HasPower(i) == node_record_table[i].power /= NULL_POWER

IsReady(i) == HasPower(i) /\ node_record_table[i].power.state = 1

\* _rebalance_node_power has finished phases A-D: every new_cap_watts is final
Allocated == conf.cap_watts /= 0 /\ pc \in {"phaseE", "set_caps", "tick_end"}

\* a uint32_t too large to be a wattage of the model (a wrapped difference)
Wrapped(w) == w < 0 \/ w > Million

\* the sum of f over S, for values that are not Wrapped
RECURSIVE SumOver(_, _)
SumOver(f, S) ==
  IF S = {} THEN 0
  ELSE LET i == CHOOSE x \in S : TRUE IN f[i] + SumOver(f, S \ {i})

\* the unsigned sum of f over S is above limit (limit not Wrapped)
SumAbove(f, S, limit) ==
  \/ \E i \in S : Wrapped(f[i])
  \/ SumOver(f, S) > limit

NewCaps == [i \in Nids |-> IF HasPower(i)
                           THEN node_record_table[i].power.new_cap_watts
                           ELSE 0]

\* C1: after the allocation (cap_watts > 0) every ready node with a power
\* record has min_watts <= new_cap_watts <= max_watts.
C1_ReadyCapInRange ==
  Allocated =>
    \A i \in Nids :
      IsReady(i) =>
        /\ U32Le(node_record_table[i].power.min_watts,
                 node_record_table[i].power.new_cap_watts)
        /\ U32Le(node_record_table[i].power.new_cap_watts,
                 node_record_table[i].power.max_watts)

\* C2: after the allocation every not-ready node with a power record has
\* new_cap_watts equal to its installed cap_watts, or to max_watts when no
\* cap is installed.  Stated where phases A-D are done and the change list
\* is not yet built, so that cap_watts is still the installed cap.
C2_NotReadyUntouched ==
  (conf.cap_watts /= 0 /\ pc = "phaseE") =>
    \A i \in Nids :
      (HasPower(i) /\ ~IsReady(i)) =>
        node_record_table[i].power.new_cap_watts =
          IF node_record_table[i].power.cap_watts /= 0
          THEN node_record_table[i].power.cap_watts
          ELSE node_record_table[i].power.max_watts

\* the nodes Phase B counts as placed: a power record, new_cap_watts nonzero
Placed == { i \in Nids : HasPower(i) /\ NewCaps[i] /= 0 }

\* the largest rounding slack below lower_cnt + same_cnt (none: 0)
RoundingSlack ==
  LET cnt == alloc.node_power_lower_cnt + alloc.node_power_same_cnt
  IN  IF cnt = 0 THEN 0 ELSE cnt - 1

\* C3: with cap_watts > 0, immediately after Phase B the new_cap_watts of
\* the placed nodes sum to at most cap_watts plus a rounding slack smaller
\* than lower_cnt + same_cnt.
C3_PlacedSumWithinBudget ==
  (conf.cap_watts /= 0 /\ pc = "phaseC") =>
    ~SumAbove(NewCaps, Placed, conf.cap_watts + RoundingSlack)

\* C4: with cap_watts nonzero, at the end of the tick the new_cap_watts of
\* all nodes with a power record sum to at most cap_watts plus the number
\* of redistributable nodes (at most: every node with a power record).
C4_TickSumWithinBudget ==
  (conf.cap_watts /= 0 /\ pc = "tick_end") =>
    ~SumAbove(NewCaps, { i \in Nids : HasPower(i) },
              conf.cap_watts + Cardinality({ i \in Nids : HasPower(i) }))

\* C5: every set_power_cap invocation for a decrease record comes before
\* every invocation for an increase record.
C5_DecreasesFirst ==
  \A a, b \in DOMAIN capmc_log :
    (capmc_log[a].increase_power /\ ~capmc_log[b].increase_power) => b < a

\* the list held an increase record ahead of a decrease record, and both
\* have been dispatched
C5_Witness ==
  /\ pc = "tick_end"
  /\ ~node_power_list.null
  /\ \E a, b \in DOMAIN node_power_list.recs :
       /\ a < b
       /\ node_power_list.recs[a].increase_power
       /\ ~node_power_list.recs[b].increase_power
  /\ \E a, b \in DOMAIN capmc_log :
       capmc_log[a].increase_power /\ ~capmc_log[b].increase_power

\* C6: if the installed caps sum to at most cap_watts when the applier
\* starts, they sum to at most cap_watts after every set_power_cap
\* invocation of the tick, whichever invocations fail.
C6_NoTransientOvershoot ==
  (/\ conf.cap_watts /= 0
   /\ pc \in {"set_caps", "tick_end"}
   /\ ~SumAbove(hw_entry, DOMAIN hw_entry, conf.cap_watts)) =>
    ~SumAbove(hw_cap, DOMAIN hw_cap, conf.cap_watts)

\* the table as the levelling loop finds it when it reaches job k
BeforeJob(k) ==
  level_power_by_job(conf, node_record_table, SubSeq(job_list, 1, k - 1))

\* C7: after _level_power_by_job every running job selected by job_level
\* has all its ready nodes with a power record at one new_cap_watts, the
\* floor of the mean of their new_cap_watts before that job was levelled,
\* whatever other selected jobs share nodes with it.
C7_JobNodesLevelled ==
  [][(pc = "phaseD" /\ conf.job_level /= 0) =>
       \A k \in DOMAIN job_list :
         level_selected(conf, job_list[k]) =>
           LET S      == level_nodes(node_record_table, job_list[k])
               before == [i \in Nids |->
                            IF i \in S
                            THEN BeforeJob(k)[i].power.new_cap_watts ELSE 0]
           IN  (\A i \in S : ~Wrapped(before[i])) =>
                 \A i \in S :
                   node_record_table'[i].power.new_cap_watts =
                     SumOver(before, S) \div Cardinality(S)]_vars

\* the nodes _clear_node_caps is to list: power record, ready, a cap installed
Capped == { i \in Nids : IsReady(i) /\ node_record_table[i].power.cap_watts /= 0 }

\* the list holds exactly one record, naming each node of S once, with no
\* watts (alloc_watts 0)
OneClearRecord(list, S) ==
  /\ ~list.null
  /\ Len(list.recs) = 1
  /\ { list.recs[1].nodes[k] : k \in DOMAIN list.recs[1].nodes } = S
  /\ Len(list.recs[1].nodes) = Cardinality(S)
  /\ list.recs[1].alloc_watts = 0

\* C10 as stated: with cap_watts = 0 the tick goes straight to the applier,
\* writes no node's cap_watts or new_cap_watts, and _clear_node_caps emits a
\* single record listing exactly the ready nodes with a nonzero cap.
C10_AlwaysOneRecord ==
  [][(pc = "balance" /\ conf.cap_watts = 0) =>
       /\ pc' = "set_caps"
       /\ node_record_table' = node_record_table
       /\ OneClearRecord(node_power_list', Capped)]_vars

\* C10 amended: the single record is emitted when at least one node is ready
\* with a nonzero cap; when there is none the list is NULL (no record).
C10_OneRecordOrNone ==
  [][(pc = "balance" /\ conf.cap_watts = 0) =>
       /\ pc' = "set_caps"
       /\ node_record_table' = node_record_table
       /\ IF Capped = {} THEN node_power_list'.null
          ELSE OneClearRecord(node_power_list', Capped)]_vars

\* three ready nodes with caps 100, 200, 300: one record with nodes 1-3
C10_Witness ==
  /\ conf.cap_watts = 0
  /\ pc = "set_caps"
  /\ \A i \in Nids : IsReady(i)
  /\ [i \in Nids |-> node_record_table[i].power.cap_watts] = <<100, 200, 300>>
  /\ node_power_list.recs =
       << [alloc_watts |-> 0, increase_power |-> FALSE, nodes |-> <<1, 2, 3>>] >>

\* the positions at which record r names node i
NamedAt(r, i) == { k \in DOMAIN r.nodes : r.nodes[k] = i }

\* C11: the change list Phase E builds names every node whose new_cap_watts
\* differs from its cap_watts in exactly one record and names no other
\* node; every node a record names has the record's direction and a
\* new_cap_watts equal to the record's watts.
C11_ChangeListExact ==
  [][(pc = "phaseE" /\ pc' = "set_caps") =>
       LET recs    == node_power_list'.recs
           changed == { i \in Nids :
                          /\ HasPower(i)
                          /\ node_record_table[i].power.cap_watts /=
                               node_record_table[i].power.new_cap_watts }
       IN  /\ \A i \in changed :
                /\ Cardinality({ k \in DOMAIN recs :
                                   NamedAt(recs[k], i) /= {} }) = 1
                /\ \A k \in DOMAIN recs :
                     Cardinality(NamedAt(recs[k], i)) <= 1
           /\ \A k \in DOMAIN recs :
                \A n \in DOMAIN recs[k].nodes :
                  LET i == recs[k].nodes[n]
                  IN  /\ i \in changed
                      /\ recs[k].increase_power =
                           U32Lt(node_record_table[i].power.cap_watts,
                                 node_record_table[i].power.new_cap_watts)
                      /\ recs[k].alloc_watts =
                           node_record_table[i].power.new_cap_watts]_vars

\* C17: a failed set_power_cap invocation is only logged: when
\* _set_power_caps returns, every record of the change list has been
\* dispatched, whatever the statuses of the invocations were.
C17_FailureOnlyLogged ==
  [][(pc = "set_caps" /\ pc' = "tick_end" /\ ~node_power_list.null) =>
       \A k \in DOMAIN node_power_list.recs :
         \E m \in DOMAIN capmc_log' :
           /\ capmc_log'[m].nodes = node_power_list.recs[k].nodes
           /\ capmc_log'[m].watts = node_power_list.recs[k].alloc_watts]_vars

\* the nodes Phase A classifies: ready, with a cap and a reading
Classified(i) ==
  /\ IsReady(i)
  /\ node_record_table[i].power.cap_watts /= 0
  /\ node_record_table[i].power.current_watts /= 0

\* current_watts * 100 < cap_watts * threshold, in unbounded integers (the
\* values of the tables are small and not wrapped)
BelowPercent(i, threshold) ==
  node_record_table[i].power.current_watts * 100 <
    node_record_table[i].power.cap_watts * threshold

\* C19: Phase A classifies a ready node with a cap and a reading as
\* under-using exactly when current_watts * 100 < cap_watts *
\* lower_threshold (its new cap is then below its cap or at min_watts), as
\* in band exactly when it is not under-using and current_watts * 100 <
\* cap_watts * upper_threshold (new_cap_watts = max(cap_watts, min_watts)),
\* and as pressing otherwise (new_cap_watts left 0).
C19_Classification ==
  [][(pc = "balance" /\ pc' = "phaseB") =>
       LET under == { i \in Nids : /\ Classified(i)
                                   /\ BelowPercent(i, conf.lower_threshold) }
           band  == { i \in Nids : /\ Classified(i)
                                   /\ i \notin under
                                   /\ BelowPercent(i, conf.upper_threshold) }
           press == { i \in Nids : /\ Classified(i)
                                   /\ i \notin under
                                   /\ i \notin band }
       IN  /\ alloc'.node_power_lower_cnt = Cardinality(under)
           /\ alloc'.node_power_same_cnt = Cardinality(band)
           /\ alloc'.node_power_raise_cnt = Cardinality(press)
           /\ \A i \in band :
                node_record_table'[i].power.new_cap_watts =
                  U32Max(node_record_table[i].power.cap_watts,
                         node_record_table[i].power.min_watts)
           /\ \A i \in press :
                node_record_table'[i].power.new_cap_watts = 0]_vars

\* the nodes line 1434 takes for under-using
UnderUsing(i) ==
  /\ Classified(i)
  /\ U32Lt(node_record_table[i].power.current_watts,
           U32Mul(node_record_table[i].power.cap_watts,
                  conf.lower_threshold))

\* a - b, or 0 when b > a
Minus(a, b) == IF a >= b THEN a - b ELSE 0

\* the smaller and the larger of two integers
Least(a, b) == IF a <= b THEN a ELSE b
Most(a, b) == IF a >= b THEN a ELSE b

\* C20: for a node Phase A takes for under-using, new_cap_watts =
\* max(min_watts, cap_watts - min((max_watts - min_watts) * decrease_rate /
\* 100, (cap_watts - current_watts) / 2)): the cap never drops by more than
\* the decrease-rate step and never below min_watts.
C20_UnderUsingFormula ==
  [][(pc = "balance" /\ pc' = "phaseB") =>
       \A i \in Nids : UnderUsing(i) =>
         LET p    == node_record_table[i].power
             q    == node_record_table'[i].power
             step == ((p.max_watts - p.min_watts) * conf.decrease_rate)
                       \div 100
             half == (p.cap_watts - p.current_watts) \div 2
         IN  /\ q.new_cap_watts =
                  Most(p.min_watts, p.cap_watts - Least(step, half))
             /\ q.new_cap_watts >= p.min_watts
             /\ Minus(p.cap_watts, q.new_cap_watts) <= step]_vars

\* Phase A left no wrapped number behind
PhaseAClean ==
  /\ ~Wrapped(alloc.alloc_power)
  /\ ~Wrapped(alloc.node_power_needed)
  /\ \A i \in Nids : HasPower(i) => ~Wrapped(NewCaps[i])

\* C21: Phase B runs exactly when alloc_power > cap_watts or need_power >
\* avail; it then takes red = max(alloc_power - cap_watts, need_power -
\* avail) / (lower_cnt + same_cnt) and subtracts min(new_cap_watts -
\* min_watts, red) from every node with a nonzero new_cap_watts and from
\* alloc_power, so that no node ends below its min_watts.
C21_Clawback ==
  [][(pc = "phaseB" /\ PhaseAClean) =>
       LET cap   == conf.cap_watts
           ap    == alloc.alloc_power
           need  == alloc.node_power_needed
           avail == Minus(cap, ap)
           d     == alloc.node_power_lower_cnt + alloc.node_power_same_cnt
           red   == Most(Minus(ap, cap), Minus(need, avail)) \div d
           cut   == [i \in Nids |->
                       IF HasPower(i) /\ NewCaps[i] /= 0
                       THEN Least(NewCaps[i] -
                                    node_record_table[i].power.min_watts, red)
                       ELSE 0]
       IN  IF ~(ap > cap \/ need > avail)
           THEN /\ node_record_table' = node_record_table
                /\ alloc'.alloc_power = ap
                /\ pc' = "phaseC"
           ELSE /\ d /= 0
                /\ pc' = "phaseC"
                /\ \A i \in Nids : HasPower(i) =>
                     /\ node_record_table'[i].power.new_cap_watts =
                          NewCaps[i] - cut[i]
                     /\ NewCaps[i] /= 0 =>
                          node_record_table'[i].power.new_cap_watts >=
                            node_record_table[i].power.min_watts
                /\ alloc'.alloc_power = ap - SumOver(cut, Nids)]_vars

\* the nodes Phase A counted in raise_cnt: classified, and left without a
\* new cap
Pressing == { i \in Nids : Classified(i) /\ NewCaps[i] = 0 }

\* new_job_time == 0, new_job_time > now - recent_job, or cap_watts == 0
RecentJob(i) ==
  \/ node_record_table[i].power.new_job_time = 0
  \/ node_record_table[i].power.new_job_time > now - conf.recent_job
  \/ node_record_table[i].power.cap_watts = 0

\* C22 (what it says of the outcome): Phase C gives a new cap to exactly
\* the pressing nodes; every pressing node ends with a cap within
\* [min_watts, max_watts], and one without a recent job ends at most the
\* increase-rate step (max_watts - min_watts) * increase_rate / 100 above
\* its cap_watts (or at min_watts).
C22_PressingNodesRaised ==
  [][(pc = "phaseC" /\ PhaseAClean /\ ~Wrapped(alloc.avail_power)) =>
       \A i \in Nids : HasPower(i) =>
         LET p  == node_record_table[i].power
             nc == node_record_table'[i].power.new_cap_watts
         IN  IF i \in Pressing
             THEN /\ p.min_watts <= nc
                  /\ nc <= p.max_watts
                  /\ ~RecentJob(i) =>
                       nc <= Most(p.min_watts,
                                  p.cap_watts +
                                    ((p.max_watts - p.min_watts) *
                                       conf.increase_rate) \div 100)
             ELSE nc = p.new_cap_watts]_vars

\* the jobs to level: running, and either levelling is forced on or it is
\* per job and the job carries the level flag
Chosen(k) ==
  /\ job_list[k].running
  /\ \/ conf.job_level = 1
     \/ conf.job_level = NO_VAL /\ job_list[k].level_flag

\* the ready nodes of job k
ReadyOf(k) == { i \in job_list[k].node_bitmap \cap Nids : IsReady(i) }

\* no other job to level shares a node with job k
Alone(k) ==
  \A m \in DOMAIN job_list :
    (m /= k /\ Chosen(m)) =>
      job_list[m].node_bitmap \cap job_list[k].node_bitmap = {}

\* C23: Phase D changes only ready nodes of running jobs that job_level
\* selects (every running job when forced on, none when forced off, the
\* jobs carrying the level flag when per job), and it levels such a job:
\* its ready nodes (the only ones counted) all get the floor of their mean.
\* The second part is stated for a job that shares no node with another
\* job to level.
C23_JobSelection ==
  [][(pc = "phaseD" /\ PhaseAClean) =>
       /\ \A i \in Nids :
            (HasPower(i) /\
               node_record_table'[i].power.new_cap_watts /= NewCaps[i]) =>
              /\ IsReady(i)
              /\ \E k \in DOMAIN job_list :
                   Chosen(k) /\ i \in job_list[k].node_bitmap
       /\ \A k \in DOMAIN job_list :
            (Chosen(k) /\ Alone(k) /\ ReadyOf(k) /= {}) =>
              \A i \in ReadyOf(k) :
                node_record_table'[i].power.new_cap_watts =
                  SumOver(NewCaps, ReadyOf(k)) \div Cardinality(ReadyOf(k))]_vars

\* levelling forced on: the running job on nodes 1 and 2, which carries no
\* level flag, has been levelled (250 and 200 after Phase B, 225 each now)
C23_Witness ==
  /\ pc = "phaseE"
  /\ conf.job_level = 1
  /\ job_list[1] = Job(TRUE, FALSE, {1, 2})
  /\ ~HasPower(3)
  /\ IsReady(1) /\ IsReady(2)
  /\ node_record_table[1].power.cap_watts = 300
  /\ node_record_table[2].power.cap_watts = 200
  /\ NewCaps[1] = 225 /\ NewCaps[2] = 225

\* the nodes the change list names
ListedNodes(list) ==
  IF list.null THEN {}
  ELSE UNION { { list.recs[k].nodes[m] : m \in DOMAIN list.recs[k].nodes } :
                 k \in DOMAIN list.recs }

\* C31: no record of the change list a tick produces, on the clearing path
\* or on the balancing path, names a node whose state is not 1.
C31_OnlyReadyNodesListed ==
  [][((pc = "balance" \/ pc = "phaseE") /\ pc' = "set_caps") =>
       \A i \in ListedNodes(node_power_list') : IsReady(i)]_vars

\* C33: the power Phase C distributes is max(0, cap_watts - alloc_power),
\* never above cap_watts: as first computed at the head of Phase B, and as
\* Phase B leaves it, also after a clawback that met nodes at min_watts.
C33_AvailWithinCap ==
  /\ (pc = "phaseB" /\ PhaseAClean) =>
       LET al == avail_set(conf, alloc)
       IN  /\ al.avail_power = Minus(conf.cap_watts, alloc.alloc_power)
           /\ al.avail_power <= conf.cap_watts
  /\ (/\ pc = "phaseC"
      /\ ~Wrapped(alloc.alloc_power)
      /\ alloc.node_power_lower_cnt + alloc.node_power_same_cnt >= 1) =>
       /\ alloc.avail_power = Minus(conf.cap_watts, alloc.alloc_power)
       /\ alloc.avail_power >= 0
       /\ alloc.avail_power <= conf.cap_watts

\* C35: whenever Phase B is entered with the clawback condition true, the
\* divisor lower_cnt + same_cnt of line 1476 is at least 1, and the pass
\* goes on to Phase C.
C35_DivisorNonzero ==
  [][(pc = "phaseB" /\ claw_needed(conf, avail_set(conf, alloc))) =>
       /\ U32Add(alloc.node_power_lower_cnt, alloc.node_power_same_cnt) /= 0
       /\ pc' = "phaseC"]_vars

\* the node that opens the first change record of Phase E, if any does
Opens(i) ==
  /\ HasPower(i)
  /\ node_record_table[i].power.cap_watts /= NewCaps[i]
  /\ \A k \in Nids : (k < i /\ HasPower(k)) =>
       node_record_table[k].power.cap_watts = NewCaps[k]

\* C37: the inner scan of the record a node opens in Phase E examines
\* entries of the node table only (index at most node_record_count, the
\* nodes being numbered from 1), wherever in the table that node is.
C37_ScanWithinTable ==
  pc = "phaseE" =>
    \A i \in Nids : Opens(i) =>
      scan_entries(node_record_table, i) \subseteq DOMAIN node_record_table

\* current_watts < cap_watts * threshold in unbounded integers, for values
\* below 2^31 and a threshold of at least 1: w < c * t exactly when
\* w \div t < c (the product itself can pass 2^32)
BelowProduct(i, threshold) ==
  node_record_table[i].power.current_watts \div threshold <
    node_record_table[i].power.cap_watts

\* C32: Phase A compares current_watts with the mathematical product
\* cap_watts * threshold, not with that product modulo 2^32: a node is
\* counted as under-using, in band or pressing as unbounded integers say.
C32_ProductNotReduced ==
  [][(pc = "balance" /\ pc' = "phaseB") =>
       LET under == { i \in Nids : /\ Classified(i)
                                   /\ BelowProduct(i, conf.lower_threshold) }
           band  == { i \in Nids : /\ Classified(i)
                                   /\ i \notin under
                                   /\ BelowProduct(i, conf.upper_threshold) }
           press == { i \in Nids : /\ Classified(i)
                                   /\ i \notin under
                                   /\ i \notin band }
       IN  /\ alloc'.node_power_lower_cnt = Cardinality(under)
           /\ alloc'.node_power_same_cnt = Cardinality(band)
           /\ alloc'.node_power_raise_cnt = Cardinality(press)]_vars

(***************************************************************************)
(* Claims about a whole tick (checked under SpecIngest).                   *)
(***************************************************************************)
\* where the worker goes from the return of each ingest's child
AfterIngest ==
  [ caps_resp         |-> "capabilities_run",
    capabilities_resp |-> "energy_run",
    energy_resp       |-> "ready_run",
    ready_resp        |-> "balance" ]

\* the child returned a nonzero status, no output, or text that is not JSON
IngestFailed ==
  \/ cmd_resp.status /= 0
  \/ cmd_resp.body = "empty"
  \/ cmd_resp.body = "garbage"

\* C18: when the child of an ingest (installed caps, capabilities, energy,
\* readiness) returns a nonzero status, an empty body or unparsable JSON,
\* the ingest changes no field of any node's power record and the worker
\* goes on to the next stage of the tick (the next ingest, or the allocator
\* after the last one).
C18_FailedIngestChangesNothing ==
  [][(pc \in DOMAIN AfterIngest /\ IngestFailed) =>
       /\ node_record_table' = node_record_table
       /\ pc' = AfterIngest[pc]]_vars

\* the readiness ingest failed, the ready state an earlier tick stored is
\* still there, and the tick has reached the applier with a change list
C18_Witness ==
  /\ pc = "set_caps"
  /\ iter = NoIter
  /\ ~node_power_list.null
  /\ IngestFailed
  /\ \E i \in Nids : HasPower(i) /\ node_record_table[i].power.state = 1

\* the nids of the "ready" array of the response being applied
ReadyBucket ==
  UNION { { cmd_resp.ents[k].nids[j] : j \in DOMAIN cmd_resp.ents[k].nids } :
            k \in DOMAIN cmd_resp.ents }

\* C29: after a successful readiness ingest every node of the table has a
\* power record, whose state is 1 when the node's nid is in the "ready"
\* array of the response and 0 when it is not, whatever state an earlier
\* tick left there.
C29_ReadyStateFromBucket ==
  [][(pc = "ready_resp" /\ ~IngestFailed) =>
       \A i \in Nids :
         /\ node_record_table'[i].power /= NULL_POWER
         /\ node_record_table'[i].power.state =
              (IF i \in ReadyBucket THEN 1 ELSE 0)]_vars

\* C29 witness: node 2, ready since an earlier tick (its record still holds
\* the 150 watts stored with it), is missing from a "ready" array that
\* names node 1 only, and is now not ready
C29_Witness ==
  /\ pc = "balance"
  /\ ~IngestFailed
  /\ Len(cmd_resp.ents) = 1
  /\ cmd_resp.ents[1].nids = <<1>>
  /\ HasPower(1) /\ node_record_table[1].power.state = 1
  /\ HasPower(2) /\ node_record_table[2].power.current_watts = 150
  /\ node_record_table[2].power.state = 0

(***************************************************************************)
(* Claims about the plugin's life (checked under SpecAgent and, for        *)
(* termination, FairSpecAgent).                                            *)
(***************************************************************************)
\* the threads created and not yet joined
Unjoined == { t \in DOMAIN agents : agents[t] /= "joined" }

\* C12: a start from the stopped state yields a worker that is alive:
\* whenever init() has recorded a worker and no fini() is under way (also
\* after init(), fini(), init()), that worker is still in its loop.
C12_RestartYieldsIdle ==
  (power_thread \in DOMAIN agents /\ fini_pc = "idle") =>
    agents[power_thread] = "running"

\* C13: whenever fini() has requested a stop (wherever the worker was), the
\* worker leaves its loop and fini()'s join returns, unless the process has
\* faulted meanwhile; and the signal is never lost: a worker waiting on
\* term_cond while stop_power is set has been signalled.
C13_StopTerminates ==
  /\ []((pc = "waiting" /\ stop_power) => signaled)
  /\ (fini_pc = "join") ~>
       ((fini_pc = "idle" /\ Unjoined = {}) \/ pc = "fault")

\* a stop that found the worker inside its timed wait has been served: the
\* worker left, the join returned
C13_Witness ==
  /\ stop_at = "waiting"
  /\ fini_pc = "idle"
  /\ power_thread = 0
  /\ agents = <<"joined">>

\* the positions at which the worker has a child of an ingest in flight
ChildPositions == {"caps_run", "capabilities_run", "energy_run", "ready_run"}

\* C14: when the stop was requested while a child of the worker was
\* executing, the worker starts no further child in that tick: no later
\* ingest and no set_power_cap invocation.
C14_NoChildAfterStop ==
  [][(stop_power /\ stop_at \in ChildPositions) =>
       /\ (pc' \in ChildPositions => pc' = pc)
       /\ capmc_log' = capmc_log]_vars

\* C15: through any interleaving of init(), fini() and power_p_reconfig()
\* at most one worker thread exists, and an init() that finds a worker
\* recorded creates none and returns SLURM_ERROR.
C15_AtMostOneWorker ==
  /\ [](Cardinality(Unjoined) <= 1)
  /\ [][(init /\ power_thread /= 0) =>
          (agents' = agents /\ init_rc' = "SLURM_ERROR")]_vars

\* init() was refused while the one worker is in its loop
C15_Witness ==
  /\ init_rc = "SLURM_ERROR"
  /\ power_thread = 1
  /\ agents = <<"running">>
  /\ pc = "waiting"

(***************************************************************************)
(* Claims about the configuration (checked under SpecConfig).              *)
(***************************************************************************)
DefaultOf ==
  [ balance_interval |-> DEFAULT_BALANCE_INTERVAL,
    decrease_rate    |-> DEFAULT_DECREASE_RATE,
    increase_rate    |-> DEFAULT_INCREASE_RATE,
    lower_threshold  |-> DEFAULT_LOWER_THRESHOLD,
    recent_job       |-> DEFAULT_RECENT_JOB,
    upper_threshold  |-> DEFAULT_UPPER_THRESHOLD ]

\* C16: after _load_config has read a string in which one of the six
\* validated keys has a value below 1, that key holds its own default and a
\* key the string does not name is unchanged; so after any reloads each of
\* the six settings is at least 1 (as an unsigned number: not 0).
C16_InvalidKeyGetsDefault ==
  /\ [][conf' /= conf =>
          \A k \in ValidatedKeys :
            /\ (Has(power_params, k) /\ power_params[k] < 1) =>
                 conf'[k] = DefaultOf[k]
            /\ ~Has(power_params, k) => conf'[k] = conf[k]]_vars
  /\ [](\A k \in ValidatedKeys : conf[k] /= 0)

(***************************************************************************)
(* Claims about the energy ingest (checked under SpecEnergy).              *)
(***************************************************************************)
\* the ingest step is about to apply a response that parsed
EnergyParsed ==
  pc = "energy_resp" /\ cmd_resp.status = 0 /\ cmd_resp.body = "json"

\* the stored sample of node i: a node without a record gets a zeroed one
StoredSample(i) ==
  IF node_record_table[i].power = NULL_POWER THEN ZeroPower
  ELSE node_record_table[i].power

\* the fresh timestamp of an entry, in microseconds since midnight
FreshUsec(e) ==
  IF Len(e.time) < 6 THEN U64Zero
  ELSE <<(e.time[4] * 3600) + (e.time[5] * 60) + e.time[6], e.time[7]>>

\* w = floor(dj * 1000000 / dt)
IsFloorWatts(w, dj, dt) ==
  /\ ~U64Lt(<<dj, 0>>, U64MulSmall(w, dt))
  /\ U64Lt(<<dj, 0>>, U64MulSmall(w + 1, dt))

DayUsec == <<86400, 0>>

\* C8: with both timestamps nonzero and joules > prev_joules, the ingest
\* sets current_watts to floor((joules - prev_joules) * 1000000 / delta-t),
\* where delta-t is time_usec - prev_time_usec when the fresh timestamp is
\* the later one, and (time_usec + 86400000000) - prev_time_usec across a
\* midnight wrap (fresh timestamp earlier than the stored one).
C8_EstimatorFormula ==
  [][EnergyParsed =>
       \A k \in DOMAIN cmd_resp.ents :
         LET e    == cmd_resp.ents[k]
             i    == e.nid
             prev == StoredSample(i)
             t    == FreshUsec(e)
             dj   == e.energy_ctr - prev.joule_counter
         IN  (/\ i \in Nids
              /\ prev.time_usec /= U64Zero /\ t /= U64Zero
              /\ e.energy_ctr > prev.joule_counter
              /\ t /= prev.time_usec)
             => LET dt == IF U64Lt(prev.time_usec, t)
                          THEN U64Sub(t, prev.time_usec)
                          ELSE U64Sub(U64Add(t, DayUsec), prev.time_usec)
                IN  IsFloorWatts(node_record_table'[i].power.current_watts,
                                 dj, dt)
    ]_vars

\* C8 witness: the stored sample (1000000 J, 86399000000 us) met the fresh
\* sample (1002000 J, 1000000 us): delta-t 2000000 us, 1000 watts.
C8_Witness ==
  /\ pc = "ready_run"
  /\ \E i \in Nids :
       /\ node_record_table[i].power /= NULL_POWER
       /\ node_record_table[i].power.current_watts = 1000
       /\ node_record_table[i].power.joule_counter = 1002000
       /\ node_record_table[i].power.time_usec = <<1, 0>>

\* C9: after a successful ingest every node named in the response holds the
\* fresh (joule_counter, time_usec) pair, and its current_watts is 0 when
\* the stored or the fresh timestamp is zero or the fresh counter is not
\* greater than the stored one.
C9_NoEstimate ==
  [][EnergyParsed =>
       \A k \in DOMAIN cmd_resp.ents :
         LET e    == cmd_resp.ents[k]
             i    == e.nid
             prev == StoredSample(i)
             t    == FreshUsec(e)
         IN  i \in Nids =>
               LET post == node_record_table'[i].power
               IN  /\ post.joule_counter = e.energy_ctr
                   /\ post.time_usec = t
                   /\ (\/ prev.time_usec = U64Zero
                       \/ t = U64Zero
                       \/ e.energy_ctr <= prev.joule_counter)
                      => post.current_watts = 0
    ]_vars

\* C9 witness: a node that had an estimate (77 watts) was named with a
\* counter below its stored one, and now holds the fresh pair and 0 watts.
C9_Witness ==
  /\ pc = "ready_run"
  /\ \E k \in DOMAIN cmd_resp.ents :
       LET e == cmd_resp.ents[k]
       IN  /\ e.nid \in Nids
           /\ node_record_table[e.nid].power /= NULL_POWER
           /\ e.energy_ctr = 999000
           /\ node_record_table[e.nid].power.joule_counter = 999000
           /\ node_record_table[e.nid].power.time_usec = <<43210, 500000>>
           /\ node_record_table[e.nid].power.current_watts = 0

\* the three delta-t cases of a pair of nonzero timestamps with a counter
\* that went up: the estimate the step must leave in current_watts
EstimateHolds(i, prev, e, dt) ==
  IsFloorWatts(node_record_table'[i].power.current_watts,
               e.energy_ctr - prev.joule_counter, dt)

\* C24: for every pair of nonzero timestamps, delta-t is time_usec -
\* prev_time_usec when the fresh timestamp is the later one; it is
\* (time_usec + 86400000000) - prev_time_usec, one midnight wrap, when the
\* fresh timestamp is strictly earlier than the stored one and less than a
\* day behind it; and when the two timestamps are equal no estimate is made
\* (current_watts is left at 0).
C24_DeltaT ==
  [][EnergyParsed =>
       \A k \in DOMAIN cmd_resp.ents :
         LET e    == cmd_resp.ents[k]
             i    == e.nid
             prev == StoredSample(i)
             t    == FreshUsec(e)
         IN  (/\ i \in Nids
              /\ prev.time_usec /= U64Zero /\ t /= U64Zero
              /\ e.energy_ctr > prev.joule_counter)
             => IF U64Lt(prev.time_usec, t)
                THEN EstimateHolds(i, prev, e, U64Sub(t, prev.time_usec))
                ELSE IF /\ U64Lt(t, prev.time_usec)
                        /\ U64Lt(prev.time_usec, U64Add(t, DayUsec))
                THEN EstimateHolds(i, prev, e,
                                   U64Sub(U64Add(t, DayUsec), prev.time_usec))
                ELSE node_record_table'[i].power.current_watts = 0
    ]_vars

\* C24 witness: the stored sample (1000000 J, 43200000000 us) met a fresh
\* sample 86400 J higher with the same timestamp, and no estimate was made
\* (a wrap of a whole day would have given 1 watt).
C24_Witness ==
  /\ pc = "ready_run"
  /\ cmd_resp.status = 0 /\ cmd_resp.body = "json"
  /\ hw_entry = hw_cap
  /\ \E k \in DOMAIN cmd_resp.ents :
       LET e == cmd_resp.ents[k]
       IN  /\ e.nid \in Nids
           /\ e.energy_ctr = 1086400
           /\ e.time = <<2015, 2, 19, 12, 0, 0, 0, 6>>
           /\ node_record_table[e.nid].power.joule_counter = 1086400
           /\ node_record_table[e.nid].power.time_usec = <<43200, 0>>
           /\ node_record_table[e.nid].power.current_watts = 0

\* C24 as stated: a fresh timestamp that is not later than the stored one,
\* the equal one included, is taken as one midnight wrap whenever
\* time_usec + 86400000000 > prev_time_usec.
C24_EqualIsWrap ==
  [][EnergyParsed =>
       \A k \in DOMAIN cmd_resp.ents :
         LET e    == cmd_resp.ents[k]
             i    == e.nid
             prev == StoredSample(i)
             t    == FreshUsec(e)
         IN  (/\ i \in Nids
              /\ prev.time_usec /= U64Zero /\ t /= U64Zero
              /\ e.energy_ctr > prev.joule_counter)
             => IF U64Lt(prev.time_usec, t)
                THEN EstimateHolds(i, prev, e, U64Sub(t, prev.time_usec))
                ELSE IF U64Lt(prev.time_usec, U64Add(t, DayUsec))
                THEN EstimateHolds(i, prev, e,
                                   U64Sub(U64Add(t, DayUsec), prev.time_usec))
                ELSE node_record_table'[i].power.current_watts = 0
    ]_vars

(***************************************************************************)
(* Claims about the worker's ticks (checked under SpecTicks).              *)
(***************************************************************************)
\* every variable but the worker's position
NotPc ==
  <<conf, now, node_record_table, job_list, hw_cap, cmd_resp, alloc,
    node_power_list, iter, capmc_log, hw_entry, life, rest>>

\* the worker is at the tests of lines 1230-1238 and the tick is due
DueTick ==
  /\ pc = "woke"
  /\ ~stop_power
  /\ now - last_balance_time >= conf.balance_interval

\* the worker leaves the tests of lines 1230-1238 into a tick
TickBegins == pc = "woke" /\ pc' \notin {"woke", "loop", "exit"}

\* C25: a due tick is skipped, the worker going back to its sleep with
\* nothing run and nothing written, exactly when cap_watts is 0 and the
\* previous executed tick found it 0 too; the first tick ever executes
\* whatever cap_watts is, and so does every due tick that finds cap_watts
\* nonzero.
C25_SkipWhenCapStaysZero ==
  [][(DueTick /\ pc' /= pc) =>
       IF conf.cap_watts = 0 /\ hist.ticks > 0 /\ hist.cap_watts = 0
       THEN pc' = "loop" /\ NotPc' = NotPc
       ELSE pc' = "caps_run" /\ hist'.ticks = hist.ticks + 1]_vars

\* C25 witness: the first tick ran the clearing path (cap_watts 0, the
\* node's cap of 200 watts removed) and the next tick, due with cap_watts
\* still 0, is about to be skipped
C25_Witness ==
  /\ DueTick
  /\ conf.cap_watts = 0
  /\ hist.ticks = 1 /\ hist.cap_watts = 0
  /\ Len(capmc_log) = 1
  /\ capmc_log[1].watts = 0 /\ capmc_log[1].status = 0
  /\ hw_cap[1] = 0

\* C26: the worker runs "capmc get_power_cap" during its first executed
\* tick and during no later one.
C26_CapsReadOnce ==
  [][(pc = "caps_run" /\ pc' = "caps_resp") => hist.ticks = 1]_vars

\* C27: two consecutive runs of "capmc get_node_rules" are more than 600
\* seconds apart.
C27_CapabilitiesEveryTenMinutes ==
  [][(pc = "capabilities_run" /\ pc' = "capabilities_resp"
      /\ hist.capabilities_at /= 0)
     => now - hist.capabilities_at > 600]_vars

\* C28: a tick begins no sooner than balance_interval seconds after the
\* later of the worker's start and the end of the previous executed tick,
\* and last_balance_time holds that time: it is written at the worker's
\* start and at the end of every executed tick, and nowhere else.
C28_TicksSpaced ==
  [][/\ TickBegins => now - hist.since >= conf.balance_interval
     /\ last_balance_time' = hist'.since]_vars

\* C28 witness: a second tick has begun, one second (balance_interval)
\* after the first one ended
C28_Witness ==
  /\ pc = "caps_run"
  /\ hist.ticks = 2
  /\ conf.balance_interval = 1
  /\ now = hist.since + 1

(***************************************************************************)
(* Claims about the worker's locks (checked under SpecLocks).              *)
(***************************************************************************)
\* where the worker is when the child of an ingest has returned
RespOf ==
  [ caps_run         |-> "caps_resp",
    capabilities_run |-> "capabilities_resp",
    energy_run       |-> "energy_resp",
    ready_run        |-> "ready_resp" ]

\* this step is the run of a capmc child: one of the four ingests' or a
\* set_power_cap
ChildRan ==
  \/ pc \in DOMAIN RespOf /\ pc' = RespOf[pc]
  \/ pc = "set_caps" /\ iter' /= iter

\* the worker is inside an ingest, its child having returned
InIngest ==
  pc \in {"caps_resp", "caps_copy", "capabilities_resp", "capabilities_copy",
          "energy_resp", "energy_copy", "ready_resp", "ready_copy"}

\* the worker is inside _clear_node_caps or _rebalance_node_power
InAllocator == pc \in {"balance", "phaseB", "phaseC", "phaseD", "phaseE"}

\* C30: the worker holds no slurmctld lock while a capmc child runs; an
\* ingest holds the node write lock only from the moment its response has
\* parsed until the entries are copied into the power records, and copies
\* only under it; the allocator runs under the job and node read locks from
\* its first step on, and they are released when the change list is
\* complete, before the first set_power_cap.
C30_LockDiscipline ==
  [][/\ ChildRan => slurmctld_lock = no_locks /\ slurmctld_lock' = no_locks
     /\ slurmctld_lock.node = "WRITE_LOCK" =>
          /\ InIngest /\ ~ChildFailed(cmd_resp)
          /\ pc' /= pc => slurmctld_lock' = no_locks
     /\ (InIngest /\ node_record_table' /= node_record_table) =>
          slurmctld_lock = write_node_lock
     /\ InAllocator => slurmctld_lock = read_locks
     /\ (InAllocator /\ pc' = "set_caps") => slurmctld_lock' = no_locks
     /\ pc = "set_caps" => slurmctld_lock = no_locks]_vars

\* C30 witness: the energy ingest has copied the sample of 1086400 J into
\* the node's record, the allocator has built a change list, a
\* set_power_cap has been run, and the worker holds no lock
C30_Witness ==
  /\ pc = "set_caps"
  /\ capmc_log /= <<>>
  /\ slurmctld_lock = no_locks
  /\ HasPower(1)
  /\ node_record_table[1].power.joule_counter = 1086400

\* C34: the worker changes a field of a power record only while it holds
\* the node write lock.
C34_WritesUnderWriteLock ==
  [][node_record_table' /= node_record_table =>
       slurmctld_lock.node = "WRITE_LOCK"]_vars

\* C36: no string that script_argv of the worker points at (the capmc
\* path, the nid range string) is released by a configuration reload
\* between the filling of script_argv and the return of power_run_script.
C36_ArgvStaysAllocated ==
  \A k \in DOMAIN script_argv : script_argv[k] /= "freed"

====
